---- MODULE Spec2Model ----
(***************************************************************************)
(* Agent execution loop with pre-execution validation, hierarchical trace  *)
(* construction, meta-tool delegation and fail-fast batch dispatch.        *)
(*                                                                         *)
(* Node ids are strings such as "2.3.1".  They are modelled as sequences   *)
(* of integers in which Dot stands for the character "." and a natural n   *)
(* stands for the decimal numeral of n, so that string concatenation is    *)
(* sequence concatenation and str.count(".") counts the Dot entries.       *)
(* Message contents are sequences of string tokens; str.startswith is the  *)
(* comparison of the leading token.                                        *)
(***************************************************************************)
EXTENDS Integers, Sequences, FiniteSets, TLC

VARIABLES
    mode,          \* which entry point runs: "store", "erc3", "node", "plan", "batch", ...
    registry,      \* VALIDATOR_REGISTRY, in registration order
    trace,         \* the trace list shared by the whole invocation tree
    stack,         \* run_agent_loop invocations, innermost last
    result,        \* what the outermost run_agent_loop handed to its caller
    rejections,    \* validator calls so far that rejected or failed
    nid_parent,    \* next_node_id input: parent id
    nid_index,     \* next_node_id input: sibling index
    nid_out,       \* next_node_id output (NoneId before the call)
    plan_conv,     \* conversation handed to inject_plan
    plan_last,     \* remaining_work of the latest inject_plan call
    plan_calls,    \* number of inject_plan calls made
    plan_loop,     \* messages the loop itself put into the conversation, in order
    batch_fns,     \* functions_list handed to execute_batch
    batch_out,     \* value returned by execute_batch
    dispatched,    \* requests the backend client received, in order
    call_fn,       \* request handed to execute_single_call
    call_backend,  \* store backend before the call
    call_out,      \* what execute_single_call handed back (NoCall before the call)
    dwt_backend,   \* how long the backend takes for the dispatch, and its answer
    dwt_clock,     \* time since dispatch_with_timeout was entered
    dwt_worker,    \* worker thread running benchmark_client.dispatch
    dwt_caller,     \* position of the thread that called dispatch_with_timeout
    gw_script,     \* what each LLM request of one get_next_step call runs into
    gw_task_ctx,   \* whether a TaskContext was supplied
    gw_attempt,    \* loop variable of the retry loop
    gw_requests,   \* LLM requests issued so far
    gw_out,         \* what get_next_step handed back (NoStep before)
    run_bench,     \* benchmark the runner serves
    run_platform,  \* outcomes of the evaluation platform calls and of the fallback response
    run_pc,        \* position of the runner
    run_loop,      \* how run_agent_loop ended
    run_trace,     \* the trace list the runner created and handed to the loop
    run_completions, \* complete_task calls made
    run_report,     \* what the runner handed back (NoReport before)
    pg_server,     \* the list endpoint behind _paginate
    pg_out,         \* what _paginate handed back (NoPages before)
    del_before,    \* two delegating agents, each about to take up its sub-agent's result
    del_after,      \* the two agents after the delegation step
    par_heap,      \* list and client objects allocated by the task runs
    par_runs,       \* the task runs submitted to the thread pool
    tv_loop,       \* locals of the loop with terminal validation (agent_execution.run_agent_loop)
    tv_out         \* what that loop handed back (NoTerminal before)

vars == <<mode, registry, trace, stack, result, rejections,
          nid_parent, nid_index, nid_out,
          plan_conv, plan_last, plan_calls, plan_loop,
          batch_fns, batch_out, dispatched,
          call_fn, call_backend, call_out,
          dwt_backend, dwt_clock, dwt_worker, dwt_caller,
          gw_script, gw_task_ctx, gw_attempt, gw_requests, gw_out,
          run_bench, run_platform, run_pc, run_loop, run_trace, run_completions, run_report,
          pg_server, pg_out,
          del_before, del_after,
          par_heap, par_runs,
          tv_loop, tv_out>>

loopVars  == <<registry, trace, stack, result, rejections>>
nodeVars  == <<nid_parent, nid_index, nid_out>>
planVars  == <<plan_conv, plan_last, plan_calls, plan_loop>>
batchVars == <<batch_fns, batch_out, dispatched>>
callVars  == <<call_fn, call_backend, call_out>>
dwtVars   == <<dwt_backend, dwt_clock, dwt_worker, dwt_caller>>
gwVars    == <<gw_script, gw_task_ctx, gw_attempt, gw_requests, gw_out>>
runVars   == <<run_bench, run_platform, run_pc, run_loop, run_trace, run_completions, run_report>>
pgVars    == <<pg_server, pg_out>>
delVars   == <<del_before, del_after>>
parVars   == <<par_heap, par_runs>>
tvVars    == <<tv_loop, tv_out>>
auxVars   == <<callVars, dwtVars, gwVars, runVars, pgVars, delVars, parVars, tvVars>>

----------------------------------------------------------------------------
(* Bounds *)

MaxSteps      == 2   \* max_steps of the outermost agent
SubMaxSteps   == 1   \* max_steps of a delegated sub-agent
MaxAttempts   == 1   \* max_attempts of the registered step validator
MaxRejections == 2   \* validator calls per task that reject or fail
MaxIndex      == 3   \* largest sibling index fed to next_node_id
MaxIdLen      == 5   \* longest node id that is extended further
MaxPlanCalls  == 3   \* inject_plan calls per conversation
MaxBatch      == 4   \* longest functions_list handed to execute_batch
MaxScript     == 14  \* backend answers scripted for one call
MaxFailures   == 2   \* failing answers in one script
MaxPages      == 2   \* pages of the product catalogue
MaxClock      == 5   \* ticks of the clock watched during one dispatch
MaxTrace      == 3   \* events the loop appends before the runner takes over
MaxItems      == 6   \* items behind a paginated list endpoint
MaxFetches    == 10  \* page requests whose outcome is scripted
MaxValidators == 2   \* validators in a registry drawn for the matching check
MaxInternal   == 2   \* steps a sub-agent took before it returned
MaxRuns       == 2   \* task runs submitted to the thread pool at once
MaxValidations == 3  \* largest max_validations of the loop with terminal validation

(* Program constants *)

TimeoutTicks     == 3   \* timeout_seconds = 30, ten seconds a tick
GatewayAttempts  == 4   \* for attempt in range(4)
max_retries      == 3   \* _complete_and_format_result: max_retries = 3
DEFAULT_LIMIT    == 5   \* _DEFAULT_LIMIT
FALLBACK_LIMITS  == <<4, 3, 2, 1>>
RecursionCap     == 3   \* current_recursion_depth >= 3

----------------------------------------------------------------------------
(* Trace helper functions (infrastructure.py) *)

Dot    == -1
NoneId == <<>>          \* Python None in a node-id position
RootId == <<0>>         \* the sentinel "0"

\* Variant that joins the components of a nested id without the separator.
next_node_id_flat(parent_id, sibling_count) ==
    IF parent_id = NoneId THEN <<0>>
    ELSE IF parent_id = RootId THEN <<sibling_count + 1>>
    ELSE parent_id \o <<sibling_count + 1>>

next_node_id(parent_id, sibling_count) ==
    IF parent_id = NoneId THEN <<0>>
    ELSE IF parent_id = RootId THEN <<sibling_count + 1>>
    ELSE parent_id \o <<Dot, sibling_count + 1>>

calculate_depth(node_id) ==
    IF node_id = RootId THEN -1
    ELSE Cardinality({k \in DOMAIN node_id : node_id[k] = Dot})

prev_sibling(parent_node_id, sibling_index) ==
    IF sibling_index > 0 /\ parent_node_id # NoneId
    THEN next_node_id(parent_node_id, sibling_index - 1)
    ELSE NoneId

NoSub == [subagent_name |-> "", status |-> "", report |-> ""]

create_trace_event(node_id, parent_node_id, sibling_index, context, input_messages, output, tool_calls, subagent_result) ==
    [event                |-> "agent_step",
     node_id              |-> node_id,
     parent_node_id       |-> parent_node_id,
     prev_sibling_node_id |-> prev_sibling(parent_node_id, sibling_index),
     validates_node_id    |-> NoneId,
     depth                |-> calculate_depth(node_id),
     context              |-> context,
     validation_passed    |-> FALSE,
     input_messages       |-> input_messages,
     output               |-> output,
     tool_calls           |-> tool_calls,
     subagent_result      |-> subagent_result]

create_validator_event(node_id, parent_node_id, sibling_index, validates_node_id, validator_name, validation_passed, input_messages, output) ==
    [event                |-> "validator_step",
     node_id              |-> node_id,
     parent_node_id       |-> parent_node_id,
     prev_sibling_node_id |-> prev_sibling(parent_node_id, sibling_index),
     validates_node_id    |-> validates_node_id,
     depth                |-> calculate_depth(node_id),
     context              |-> validator_name,
     validation_passed    |-> validation_passed,
     input_messages       |-> input_messages,
     output               |-> output,
     tool_calls           |-> <<>>,
     subagent_result      |-> NoSub]

----------------------------------------------------------------------------
(* Conversation utilities (infrastructure.py) *)

PlanHead == "Remaining work:"

startswith(content, head) == Len(content) > 0 /\ content[1] = head

Msg(role, content) == [role |-> role, content |-> content]

RECURSIVE FilterPlan(_)
FilterPlan(conversation) ==
    IF conversation = <<>> THEN <<>>
    ELSE IF startswith(Head(conversation).content, PlanHead)
         THEN FilterPlan(Tail(conversation))
         ELSE <<Head(conversation)>> \o FilterPlan(Tail(conversation))

RECURSIVE RenderPlan(_, _)
RenderPlan(remaining_work, idx) ==
    IF remaining_work = <<>> THEN <<>>
    ELSE <<ToString(idx + 1), Head(remaining_work)>>
         \o RenderPlan(Tail(remaining_work), idx + 1)

plan_text(remaining_work) == <<PlanHead>> \o RenderPlan(remaining_work, 0)

\* Variant that keeps the plan messages already in the conversation.
inject_plan_keep_old(conversation, remaining_work) ==
    IF remaining_work # <<>>
    THEN Append(conversation, Msg("user", plan_text(remaining_work)))
    ELSE conversation

inject_plan(conversation, remaining_work) ==
    LET kept == FilterPlan(conversation)
    IN  IF remaining_work # <<>>
        THEN Append(kept, Msg("user", plan_text(remaining_work)))
        ELSE kept

format_subagent_result(subagent_name, status, report) ==
    <<"Sub-agent:", subagent_name, "Status:", status, "Report:", report>>

RECURSIVE FirstUserContent(_)
FirstUserContent(log) ==
    IF log = <<>> THEN <<>>
    ELSE IF Head(log).role = "user" THEN Head(log).content
         ELSE FirstUserContent(Tail(log))

RECURSIVE PreviousInteractions(_)
PreviousInteractions(log) ==
    IF log = <<>> THEN <<>>
    ELSE (IF Head(log).role = "user" /\ startswith(Head(log).content, "Sub-agent:")
          THEN Head(log).content ELSE <<>>)
         \o PreviousInteractions(Tail(log))

build_subagent_context(orchestrator_log, current_task) ==
    LET previous == PreviousInteractions(orchestrator_log)
    IN  <<"Original Task:">> \o FirstUserContent(orchestrator_log)
        \o (IF previous # <<>> THEN <<"Previous Sub-agent Results:">> \o previous ELSE <<>>)
        \o <<"Your Current Task:", current_task>>

----------------------------------------------------------------------------
(* SDK execution: fail-fast batch (infrastructure.py, benchmarks/store/tools.py) *)

\* A request carries the outcome the fake backend produces for it: "ok",
\* "timeout" (TimeoutError) or "api_error" (ApiException), and whether it is
\* one of the state-changing operations after which the basket is re-read.
Fn(name, outcome, state_changing) ==
    [name |-> name, outcome |-> outcome, state_changing |-> state_changing]

ToolCall(fn) == [request |-> fn.name, error |-> fn.outcome # "ok"]

ViewBasket == "/basket/view"

\* append_basket_state_if_needed: one more dispatch, whose failure is caught.
BasketReadBack(function) ==
    IF function.state_changing THEN <<ViewBasket>> ELSE <<>>

AbortNotice(idx, total) ==
    <<"The rest of requests are aborted due to the error.", ToString(idx), ToString(total)>>

RECURSIVE BatchLoop(_, _, _)
BatchLoop(functions_list, idx, acc) ==
    IF idx > Len(functions_list) THEN acc
    ELSE LET function == functions_list[idx]
             sent     == Append(acc.dispatched, function.name)
             part     == <<"Request:", function.name, "Response:", function.outcome>>
         IN  IF function.outcome = "ok"
             THEN BatchLoop(functions_list, idx + 1,
                            [text       |-> Append(acc.text, part \o BasketReadBack(function)),
                             tool_calls |-> Append(acc.tool_calls, ToolCall(function)),
                             dispatched |-> sent \o BasketReadBack(function)])
             ELSE [text       |-> IF idx < Len(functions_list)
                                  THEN acc.text \o <<part, AbortNotice(idx, Len(functions_list))>>
                                  ELSE Append(acc.text, part),
                   tool_calls |-> Append(acc.tool_calls, ToolCall(function)),
                   dispatched |-> sent]

\* Variant without the break: every request of the batch is dispatched.
execute_batch_no_break(functions_list) ==
    [text       |-> [k \in 1 .. Len(functions_list) |->
                        <<"Request:", functions_list[k].name,
                          "Response:", functions_list[k].outcome>>],
     tool_calls |-> [k \in 1 .. Len(functions_list) |-> ToolCall(functions_list[k])],
     dispatched |-> [k \in 1 .. Len(functions_list) |-> functions_list[k].name]]

\* Variant that appends the abort notice after a failing last request too.
execute_batch_always_notice(functions_list) ==
    LET r == BatchLoop(functions_list, 1,
                       [text |-> <<>>, tool_calls |-> <<>>, dispatched |-> <<>>])
        n == Len(functions_list)
    IN  IF n > 0 /\ Len(r.tool_calls) = n /\ r.tool_calls[n].error
        THEN [r EXCEPT !.text = Append(@, AbortNotice(n, n))]
        ELSE r

execute_batch(functions_list) ==
    BatchLoop(functions_list, 1, [text |-> <<>>, tool_calls |-> <<>>, dispatched |-> <<>>])

execute_single_call(function) ==
    [text       |-> <<<<"Request:", function.name, "Response:", function.outcome>>>>,
     tool_calls |-> <<ToolCall(function)>>,
     dispatched |-> <<function.name>>]

----------------------------------------------------------------------------
(* Store backend seen through benchmark_client.dispatch, and the wrapper
   tools built on it (benchmarks/store/tools.py, infrastructure.py) *)

\* The backend answers the k-th dispatch with script[k] ("ok", "api_error" for
\* ApiException, "timeout" for an answer that arrives after the deadline of
\* dispatch_with_timeout) and with "ok" once the script is used up.  A late
\* answer is an answer: a caller that set no deadline receives it.  The basket is a sequence of skus and a
\* coupon code ("" for none); the catalogue has `pages` pages.
Req(op, arg) == [op |-> op, arg |-> arg]

Backend(script, items, coupon, pages) ==
    [script |-> script, items |-> items, coupon |-> coupon, pages |-> pages, sent |-> <<>>]

Without(items, sku) == SelectSeq(items, LAMBDA x : x # sku)

Effect(b, req) ==
    CASE req.op = "remove_item"   -> [b EXCEPT !.items = Without(@, req.arg)]
      [] req.op = "remove_coupon" -> [b EXCEPT !.coupon = ""]
      [] req.op = "add"           -> [b EXCEPT !.items = Append(Without(@, req.arg), req.arg)]
      [] req.op = "apply"         -> [b EXCEPT !.coupon = req.arg]
      [] OTHER                    -> b

\* benchmark_client.dispatch(request)
Dispatch(b, req) ==
    LET outcome == IF b.script = <<>> THEN "ok" ELSE Head(b.script)
        b1      == [b EXCEPT !.script = IF @ = <<>> THEN <<>> ELSE Tail(@),
                             !.sent   = Append(@, req)]
    IN  [b       |-> IF outcome # "api_error" THEN Effect(b1, req) ELSE b1,
         outcome |-> outcome,
         ok      |-> outcome # "api_error"]

\* dispatch_with_timeout seen from its caller once it has returned or raised.
dispatch_with_timeout(b, req) ==
    LET r == Dispatch(b, req)
    IN  [b      |-> r.b,
         raised |-> CASE r.outcome = "timeout"   -> "TimeoutError"
                      [] r.outcome = "api_error" -> "ApiException"
                      [] OTHER                   -> ""]

\* Discount the store grants for a coupon code.
Discount(coupon) == IF coupon = "SAVE" THEN 5 ELSE 0

\* What a call hands back: a {text, tool_call} value, or an exception.
CallResult(b, raised, response) ==
    [done |-> TRUE, b |-> b, raised |-> raised, response |-> response]

\* execute_get_all_products: no try around the page requests.
RECURSIVE GetAllPages(_, _, _)
GetAllPages(b, offset, pages_fetched) ==
    LET r == Dispatch(b, Req("list", offset))
    IN  IF ~r.ok
        THEN CallResult(r.b, "ApiException", [error |-> TRUE, pages_fetched |-> pages_fetched])
        ELSE IF offset + 1 >= b.pages
             THEN CallResult(r.b, "", [error |-> FALSE, pages_fetched |-> pages_fetched + 1])
             ELSE GetAllPages(r.b, offset + 1, pages_fetched + 1)

execute_get_all_products(b) == GetAllPages(b, 0, 0)

\* execute_test_coupons: every dispatch sits in a try.
RECURSIVE TestCoupons(_, _, _, _)
TestCoupons(b, coupons, idx, results) ==
    IF idx > Len(coupons) THEN [b |-> b, results |-> results]
    ELSE LET applied == Dispatch(b, Req("apply", coupons[idx]))
             viewed  == Dispatch(applied.b, Req("view", ""))
         IN  IF ~applied.ok
             THEN TestCoupons(applied.b, coupons, idx + 1,
                      Append(results, [coupon |-> coupons[idx], valid |-> FALSE, discount |-> 0]))
             ELSE IF ~viewed.ok
             THEN TestCoupons(viewed.b, coupons, idx + 1,
                      Append(results, [coupon |-> coupons[idx], valid |-> FALSE, discount |-> 0]))
             ELSE TestCoupons(viewed.b, coupons, idx + 1,
                      Append(results, [coupon |-> coupons[idx], valid |-> TRUE,
                                       discount |-> Discount(viewed.b.coupon)]))

execute_test_coupons(b, coupons) ==
    LET tested  == TestCoupons(b, coupons, 1, <<>>)
        current == Dispatch(tested.b, Req("view", ""))
        cleaned == IF current.ok /\ current.b.coupon # ""
                   THEN Dispatch(current.b, Req("remove_coupon", "")).b
                   ELSE current.b
        final   == Dispatch(cleaned, Req("view", ""))
    IN  CallResult(final.b, "", [error |-> FALSE, results |-> tested.results,
                                 final_basket_error |-> ~final.ok])

(* execute_set_basket (tools.py lines 132-276) *)

\* Step 2: remove the products found in the basket, stopping at a failure.
RECURSIVE RemoveProducts(_, _, _)
RemoveProducts(b, cleared_products, idx) ==
    IF idx > Len(cleared_products) THEN [b |-> b, failed |-> 0]
    ELSE LET r == Dispatch(b, Req("remove_item", cleared_products[idx]))
         IN  IF r.ok THEN RemoveProducts(r.b, cleared_products, idx + 1)
             ELSE [b |-> r.b, failed |-> idx]

\* Step 4: add the requested products, stopping at a failure.
RECURSIVE AddProducts(_, _, _, _)
AddProducts(b, products_to_add, idx, added_products) ==
    IF idx > Len(products_to_add)
    THEN [b |-> b, failed |-> 0, added_products |-> added_products]
    ELSE LET r == Dispatch(b, Req("add", products_to_add[idx]))
         IN  IF r.ok
             THEN AddProducts(r.b, products_to_add, idx + 1,
                              Append(added_products, products_to_add[idx]))
             ELSE [b |-> r.b, failed |-> idx, added_products |-> added_products]

\* Step 5: apply, view and remove each coupon inside one try; a failure of any
\* of the three marks the coupon invalid and the loop goes on.
RECURSIVE TryCoupons(_, _, _, _, _, _)
TryCoupons(b, coupons_to_test, idx, coupon_test_results, best_coupon, best_discount) ==
    IF idx > Len(coupons_to_test)
    THEN [b |-> b, coupon_test_results |-> coupon_test_results,
          best_coupon |-> best_coupon, best_discount |-> best_discount]
    ELSE LET code    == coupons_to_test[idx]
             applied == Dispatch(b, Req("apply", code))
             viewed  == Dispatch(applied.b, Req("view", ""))
             removed == Dispatch(viewed.b, Req("remove_coupon", ""))
             discount == Discount(viewed.b.coupon)
             better  == discount > best_discount
             invalid == [coupon |-> code, valid |-> FALSE, discount |-> 0]
             valid   == [coupon |-> code, valid |-> TRUE, discount |-> discount]
         IN  IF ~applied.ok
             THEN TryCoupons(applied.b, coupons_to_test, idx + 1,
                             Append(coupon_test_results, invalid),
                             best_coupon, best_discount)
             ELSE IF ~viewed.ok
             THEN TryCoupons(viewed.b, coupons_to_test, idx + 1,
                             Append(coupon_test_results, invalid),
                             best_coupon, best_discount)
             ELSE IF ~removed.ok
             THEN TryCoupons(removed.b, coupons_to_test, idx + 1,
                             Append(Append(coupon_test_results, valid), invalid),
                             IF better THEN code ELSE best_coupon,
                             IF better THEN discount ELSE best_discount)
             ELSE TryCoupons(removed.b, coupons_to_test, idx + 1,
                             Append(coupon_test_results, valid),
                             IF better THEN code ELSE best_coupon,
                             IF better THEN discount ELSE best_discount)

\* _format_set_basket_result (lines 279-400): one more view, any failure caught.
format_set_basket_result(b, cleared_products, cleared_coupon, added_products, applied_coupon, coupon_test_results, error_message) ==
    LET final == Dispatch(b, Req("view", ""))
    IN  CallResult(final.b, "",
           [error            |-> error_message # "",
            error_message    |-> error_message,
            cleared_products |-> cleared_products,
            cleared_coupon   |-> cleared_coupon,
            added_products   |-> added_products,
            applied_coupon   |-> applied_coupon,
            coupon_tests     |-> coupon_test_results,
            final_items      |-> IF final.ok THEN final.b.items ELSE <<>>,
            final_error      |-> ~final.ok])

execute_set_basket(b, products_to_add, coupons_to_test) ==
    LET view    == Dispatch(b, Req("view", ""))
        cleared_products == IF view.ok THEN view.b.items ELSE <<>>
        cleared_coupon   == IF view.ok THEN view.b.coupon ELSE ""
        removal == RemoveProducts(view.b, cleared_products, 1)
        uncoupon == IF cleared_coupon # ""
                    THEN Dispatch(removal.b, Req("remove_coupon", ""))
                    ELSE [b |-> removal.b, outcome |-> "ok", ok |-> TRUE]
        adding  == AddProducts(uncoupon.b, products_to_add, 1, <<>>)
        tests   == TryCoupons(adding.b, coupons_to_test, 1, <<>>, "", 0)
        reapply == IF tests.best_coupon # "" /\ tests.best_discount > 0
                   THEN Dispatch(tests.b, Req("apply", tests.best_coupon))
                   ELSE [b |-> tests.b, outcome |-> "skipped", ok |-> TRUE]
    IN  IF removal.failed > 0
        THEN format_set_basket_result(removal.b, cleared_products, cleared_coupon,
                                      <<>>, "", <<>>, "Failed to remove")
        ELSE IF ~uncoupon.ok
        THEN format_set_basket_result(uncoupon.b, cleared_products, cleared_coupon,
                                      <<>>, "", <<>>, "Failed to remove coupon")
        ELSE IF adding.failed > 0
        THEN format_set_basket_result(adding.b, cleared_products, cleared_coupon,
                                      adding.added_products, "", <<>>, "Failed to add")
        ELSE IF ~reapply.ok
        THEN format_set_basket_result(reapply.b, cleared_products, cleared_coupon,
                                      adding.added_products, "", tests.coupon_test_results,
                                      "Failed to re-apply best coupon")
        ELSE format_set_basket_result(reapply.b, cleared_products, cleared_coupon,
                                      adding.added_products,
                                      IF reapply.outcome = "ok" THEN tests.best_coupon ELSE "",
                                      tests.coupon_test_results, "")

(* execute_single_call, with its routing to the wrapper tools *)

Tool(module, tool, arg, products, coupons) ==
    [module |-> module, tool |-> tool, arg |-> arg, products |-> products, coupons |-> coupons]

state_changing_ops == {"apply", "remove_coupon", "add", "remove_item"}

\* append_basket_state_if_needed: the read-back view catches every exception.
append_basket_state_if_needed(b, function) ==
    IF function.tool \notin state_changing_ops THEN [b |-> b, basket |-> "none"]
    ELSE LET r == Dispatch(b, Req("view", ""))
         IN  [b |-> r.b, basket |-> IF r.ok THEN "contents" ELSE "error fetching basket"]

\* Standard SDK dispatch: TimeoutError and ApiException become the response.
StandardDispatch(b, function) ==
    LET r == dispatch_with_timeout(b, Req(function.tool, function.arg))
    IN  [b |-> r.b, error |-> r.raised]

\* execute_sdk_call of the shared infrastructure, as benchmarks/store/tools.py
\* uses it: the standard dispatch with failures rendered into the result.
execute_sdk_call(b, function) == StandardDispatch(b, function)

\* infrastructure.execute_single_call
infrastructure_execute_single_call(b, function) ==
    CASE function.tool = "test_coupons"     -> execute_test_coupons(b, function.coupons)
      [] function.tool = "get_all_products" -> execute_get_all_products(b)
      [] OTHER ->
            LET sdk_result == StandardDispatch(b, function)
                shown  == append_basket_state_if_needed(sdk_result.b, function)
            IN  CallResult(shown.b, "", [error |-> sdk_result.error # "", error_kind |-> sdk_result.error,
                                         basket |-> shown.basket])

\* benchmarks.store.tools.execute_single_call
store_execute_single_call(b, function) ==
    CASE function.tool = "get_all_products" -> execute_get_all_products(b)
      [] function.tool = "set_basket"       ->
            execute_set_basket(b, function.products, function.coupons)
      [] OTHER ->
            LET sdk_result == execute_sdk_call(b, function)
                shown  == append_basket_state_if_needed(sdk_result.b, function)
            IN  CallResult(shown.b, "", [error |-> sdk_result.error # "", error_kind |-> sdk_result.error,
                                         basket |-> shown.basket])

----------------------------------------------------------------------------
(* Registries (agent_types.py, benchmarks/erc3/runtime/config.py) *)

Validator(name, triggers, applies_to, max_attempts) ==
    [name |-> name, triggers |-> triggers, applies_to |-> applies_to,
     max_attempts |-> max_attempts]

\* Proposal kinds.  Store: "terminal" (SubmitTask), "meta" (BasketBuilder /
\* CheckoutProcessor), "explorer" (ProductExplorer), "sdk", "batch",
\* "unknown" (call with neither function nor functions), "badmode" (a
\* function under a call_mode that is neither single nor batch).
\* ERC3: "respond" (Req_ProvideAgentResponse), "tool" (any other member of
\* NON_RESPOND_TOOLS), "load" (Req_LoadRespondInstructions), "none".
META_TOOLS       == {"meta", "explorer"}
TERMINAL_ACTIONS == {"terminal", "respond"}
NON_RESPOND_TOOLS == {"tool", "respond"}

is_meta_tool(kind)        == kind \in META_TOOLS
is_terminal_action(kind)  == kind \in TERMINAL_ACTIONS

StoreRegistry ==
    <<Validator("StepValidator", {"*"}, {"Orchestrator"}, MaxAttempts)>>

Erc3Registry ==
    <<Validator("StepValidator", NON_RESPOND_TOOLS, {"Agent"}, MaxAttempts)>>

\* A registry with two validators of disjoint triggers, the configuration
\* the tool-switch recursion of validate_and_retry_step is written for.
Erc3SplitRegistry ==
    <<Validator("ToolValidator", {"tool"}, {"Agent"}, 1),
      Validator("RespondValidator", {"respond", "load"}, {"*"}, 1)>>

AgentConfig(name, max_steps, tool_type) ==
    [name |-> name, max_steps |-> max_steps, tool_type |-> tool_type]

AGENT_REGISTRY(name) ==
    CASE name = "Orchestrator"  -> AgentConfig("Orchestrator", MaxSteps, "meta")
      [] name = "BasketBuilder" -> AgentConfig("BasketBuilder", SubMaxSteps, "sdk")
      [] name = "Agent"         -> AgentConfig("Agent", MaxSteps, "sdk")

----------------------------------------------------------------------------
(* The LLM: every structured decision the schema admits *)

\* remaining_work of the pid-th decision: a terminal decision has nothing left
\* to do, any other names the work that follows it.
PlanOf(pid, kind) ==
    IF kind \in TERMINAL_ACTIONS THEN <<>> ELSE <<"after step", ToString(pid)>>

Proposal(pid, kind, outcome, plan) ==
    [pid |-> pid, kind |-> kind, outcome |-> outcome, remaining_work |-> plan]

NoProposal == Proposal(0, "", "", <<>>)

KindsOf(agent) ==
    CASE agent = "Orchestrator"  -> {"terminal", "meta", "explorer", "unknown"}
      [] agent = "BasketBuilder" -> {"terminal", "sdk", "unknown", "badmode"}
      [] agent = "Agent"         -> {"respond", "tool", "load", "none"}

OutcomesOf(kind) ==
    CASE kind = "terminal" -> {"success", "failure"}
      [] kind = "respond"  -> {"ok_answer", "ok_not_found", "denied_security"}
      [] OTHER             -> {""}

Proposals(agent, pid) ==
    UNION {{Proposal(pid, k, o, PlanOf(pid, k)) : o \in OutcomesOf(k)} : k \in KindsOf(agent)}

Output(type, proposal, is_valid) ==
    [type |-> type, pid |-> proposal.pid, kind |-> proposal.kind, is_valid |-> is_valid]

----------------------------------------------------------------------------
(* One run_agent_loop invocation *)

NoValidation == [verdict |-> "", is_valid |-> FALSE, rejection_message |-> ""]

NoRet == [subagent_name |-> "", status |-> "", report |-> "", executed |-> NoProposal]

Frame(config, initial_context, parent_node_id, full_log) ==
    [agent          |-> config.name,
     tool_type      |-> config.tool_type,
     max_steps      |-> config.max_steps,
     parent_node_id |-> parent_node_id,
     conversation   |-> <<Msg("user", initial_context)>>,
     full_log       |-> full_log,
     i              |-> 0,            \* loop variable of "for i in range(max_steps)"
     step_count     |-> 0,
     pc             |-> "decide",
     llm_result     |-> NoProposal,   \* the loop's llm_result
     cur            |-> NoProposal,   \* current_llm_result inside validate_and_retry_step
     node_id        |-> NoneId,
     vidx           |-> 0,            \* validator_config (index into the registry)
     attempt        |-> 0,
     cur_step_count |-> 0,
     depth          |-> 0,            \* current_recursion_depth
     subret         |-> NoRet,        \* value returned by execute_meta_tool
     calls          |-> 0,            \* agent call_llm calls made by this invocation
     decides        |-> 0,            \* top-of-loop call_llm calls
     vcalls         |-> 0,            \* validator calls in the current step
     reprops        |-> 0,            \* re-proposal calls in the current step
     all_rejected   |-> FALSE,        \* every verdict of the current step was a rejection
     switched       |-> FALSE,        \* a re-proposal of the current step left the triggers
     validation     |-> NoValidation, \* latest value returned by run_step_validator
     temp_conversation |-> <<>>,      \* conversation given to the latest re-proposal
     indices        |-> <<>>,         \* sibling indices given to this invocation's proposals
     proposed       |-> <<>>,         \* proposals produced in the current step, in order
     executed       |-> NoProposal]   \* action executed by the latest finished iteration

Top == stack[Len(stack)]
SetTop(f) == [stack EXCEPT ![Len(stack)] = f]
Running == result.kind = "none" /\ stack # <<>>

NoResult == [kind |-> "none", status |-> "", agent |-> "", iterations |-> 0,
             decides |-> 0, max_steps |-> 0, executed |-> NoProposal,
             orchestrator_log |-> <<>>]

\* An exception leaves every enclosing run_agent_loop / execute_meta_tool:
\* neither catches it.
\* orchestrator_log is the runner's list, which the outermost invocation
\* appends to: it is in the runner's hands however the loop ends.
Raised(kind, f) ==
    [kind |-> kind, status |-> "", agent |-> f.agent, iterations |-> f.i,
     decides |-> f.decides, max_steps |-> f.max_steps, executed |-> NoProposal,
     orchestrator_log |-> stack[1].full_log]

Returned(status, f, executed) ==
    [kind |-> "return", status |-> status, agent |-> f.agent, iterations |-> f.i,
     decides |-> f.decides, max_steps |-> f.max_steps, executed |-> executed,
     orchestrator_log |-> stack[1].full_log]

----------------------------------------------------------------------------
(* Step validator (store_agent_loop.py, erc3/runtime/loop.py) *)

\* verdict: "approve" / "reject" (the validator LLM's is_valid) or "raise"
\* (the validator's call_llm raised).
\* Variant in which a failed validator call counts as a rejection.
run_step_validator_fail_closed(validator_config, verdict, agent_output, validates_node_id, parent_node_id, sibling_count) ==
    LET node_id == next_node_id(parent_node_id, sibling_count)
        input   == <<Msg("user", <<"Proposed step:", ToString(agent_output.pid)>>)>>
    IN  [event |-> create_validator_event(node_id, parent_node_id, sibling_count,
                        validates_node_id, validator_config.name, verdict = "approve",
                        input, Output(IF verdict = "raise" THEN "error" ELSE "verdict",
                                      agent_output, verdict = "approve")),
         verdict |-> verdict, is_valid |-> verdict = "approve",
         rejection_message |-> IF verdict = "approve" THEN "" ELSE "rejected"]

run_step_validator(validator_config, verdict, agent_output, validates_node_id, parent_node_id, sibling_count) ==
    LET node_id == next_node_id(parent_node_id, sibling_count)
        input   == <<Msg("user", <<"Proposed step:", ToString(agent_output.pid)>>)>>
    IN  IF verdict = "raise"
        THEN [event |-> create_validator_event(node_id, parent_node_id, sibling_count,
                            validates_node_id, validator_config.name, TRUE, input,
                            Output("error", agent_output, TRUE)),
              verdict |-> verdict, is_valid |-> TRUE, rejection_message |-> ""]
        ELSE [event |-> create_validator_event(node_id, parent_node_id, sibling_count,
                            validates_node_id, validator_config.name, verdict = "approve",
                            input, Output("verdict", agent_output, verdict = "approve")),
              verdict |-> verdict, is_valid |-> verdict = "approve",
              rejection_message |-> IF verdict = "approve" THEN "" ELSE "rejected"]

\* Validator calls of one task that do not approve; under the
\* two-validator registry as many as it takes to pass the recursion cap.
RejectionBudget ==
    IF registry = Erc3SplitRegistry THEN RecursionCap + 1 ELSE MaxRejections

Verdicts == {"approve", "reject", "raise"}

\* "for attempt in range(max_attempts + 1)"
\* Variant with one validation round fewer.
ValidationRoundsShort(max_attempts) == max_attempts

ValidationRounds(max_attempts) == max_attempts + 1

\* store: function used for validator matching
StoreFunctionToValidate(p) == IF p.kind = "unknown" THEN "" ELSE p.kind

\* store: validators named StepValidator whose triggers and agents match
RECURSIVE StoreMatching(_, _, _, _)
StoreMatching(reg, k, function, agent_name) ==
    IF k > Len(reg) THEN <<>>
    ELSE LET v == reg[k]
             tool_matches  == "*" \in v.triggers \/ function \in v.triggers
             agent_matches == "*" \in v.applies_to \/ agent_name \in v.applies_to
         IN  (IF v.name = "StepValidator" /\ tool_matches /\ agent_matches
              THEN <<k>> ELSE <<>>)
             \o StoreMatching(reg, k + 1, function, agent_name)

\* Variant that takes the last match.
StoreStepValidatorLast(reg, function, agent_name) ==
    LET step_validators == StoreMatching(reg, 1, function, agent_name)
    IN  IF step_validators = <<>> THEN 0 ELSE step_validators[Len(step_validators)]

StoreStepValidator(reg, function, agent_name) ==
    LET step_validators == StoreMatching(reg, 1, function, agent_name)
    IN  IF step_validators = <<>> THEN 0 ELSE step_validators[1]

\* Variant in which the loop goes on with the decision it made first.
ValidatedKeepsFirst(f, llm_result, step_count, node_id) ==
    [f EXCEPT !.step_count = step_count, !.node_id = node_id, !.pc = "execute"]

\* Return of validate_and_retry_step into the loop (lines 615-618).
Validated(f, llm_result, step_count, node_id) ==
    [f EXCEPT !.llm_result = llm_result, !.step_count = step_count,
              !.node_id = node_id, !.pc = "execute"]

\* Entry of validate_and_retry_step up to the retry loop.
StoreBeginValidation(f, p) ==
    LET function == StoreFunctionToValidate(p)
        v == IF function = "" THEN 0 ELSE StoreStepValidator(registry, function, f.agent)
        g == [f EXCEPT !.llm_result = p, !.cur = p, !.proposed = <<p>>, !.vcalls = 0,
                       !.reprops = 0, !.all_rejected = FALSE, !.depth = 0,
                       !.switched = FALSE, !.validation = NoValidation,
                       !.temp_conversation = <<>>]
    IN  IF v = 0
        THEN Validated([g EXCEPT !.indices = Append(@, f.step_count)],
                       p, f.step_count + 1, next_node_id(f.parent_node_id, f.step_count))
        ELSE [g EXCEPT !.vidx = v, !.attempt = 0, !.cur_step_count = f.step_count,
                       !.pc = "validate"]

Last(seq) == seq[Len(seq)]
Pop(seq)  == SubSeq(seq, 1, Len(seq) - 1)

\* Variant that puts the rejected agent_step at the head of the list.
LogRejectedAtHead(tr, f, node_id) ==
    <<create_trace_event(node_id, f.parent_node_id, f.cur_step_count,
                         f.agent, f.conversation,
                         Output("step", f.cur, FALSE), <<>>, NoSub)>> \o tr

\* Lines 296-317: the validator event just appended is popped, the rejected
\* agent_step is appended, the validator event is appended again.
LogRejected(tr, f, node_id) ==
    LET validator_event == Last(tr)
        popped == Pop(tr)
        logged == Append(popped,
                     create_trace_event(node_id, f.parent_node_id, f.cur_step_count,
                                        f.agent, f.conversation,
                                        Output("step", f.cur, FALSE), <<>>, NoSub))
    IN  Append(logged, validator_event)

\* Lines 319-335: the rejected plan and the rejection message are appended
\* to temp_conversation, a copy of the conversation, for the re-proposal.
\* Variant that appends to the conversation itself.
RejectionFeedbackInPlace(conversation, rejected, rejection_message) ==
    LET fed == conversation \o
                 <<Msg("assistant", <<"Planned step:", ToString(rejected.pid),
                                      "Plan rejected by validator.">>),
                   Msg("user", <<"Your plan was rejected:", rejection_message>>)>>
    IN  [conversation |-> fed, temp_conversation |-> fed]

RejectionFeedback(conversation, rejected, rejection_message) ==
    [conversation      |-> conversation,
     temp_conversation |-> conversation \o
                 <<Msg("assistant", <<"Planned step:", ToString(rejected.pid),
                                      "Plan rejected by validator.">>),
                   Msg("user", <<"Your plan was rejected:", rejection_message>>)>>]

\* End of one round of the retry loop after a rejection: next round, or
\* fall out of the loop and force-approve the current proposal.
AfterRejection(h, max_attempts, node_id) ==
    IF h.attempt + 1 < ValidationRounds(max_attempts)
    THEN [h EXCEPT !.attempt = @ + 1]
    ELSE Validated(h, h.cur, h.cur_step_count, node_id)

\* "for i in range(max_steps)"
\* Variant that admits one more iteration.
InRangeInclusive(i, max_steps) == i <= max_steps

InRange(i, max_steps) == i < max_steps

StoreStatus(outcome) == IF outcome = "success" THEN "completed" ELSE "refused"
\* Variant that counts only ok_answer as success.
Erc3StatusStrict(outcome) == IF outcome = "ok_answer" THEN "completed" ELSE "refused"

Erc3Status(outcome)  == IF outcome \in {"ok_answer", "ok_not_found"} THEN "completed" ELSE "refused"

----------------------------------------------------------------------------
(* Store benchmark: run_agent_loop (store_agent_loop.py) *)

SystemPrompt == <<"system prompt", "first step">>
TaskText     == <<"task">>

\* Line 597: top-of-loop decision, then validate_and_retry_step up to its loop.
StoreDecide ==
    /\ mode = "store" /\ Running
    /\ Top.pc = "decide" /\ InRange(Top.i, Top.max_steps)
    /\ \E p \in Proposals(Top.agent, Top.calls + 1) :
          stack' = SetTop(StoreBeginValidation(
                     [Top EXCEPT !.calls = @ + 1, !.decides = @ + 1], p))
    /\ UNCHANGED <<mode, registry, trace, result, rejections, nodeVars, planVars, batchVars, auxVars>>

\* call_llm exhausts its retries and raises: nothing above catches it.
DecideFails ==
    /\ mode \in {"store", "erc3"} /\ Running
    /\ Top.pc = "decide" /\ InRange(Top.i, Top.max_steps)
    /\ stack' = <<>>
    /\ result' = Raised("LLMError", [Top EXCEPT !.decides = @ + 1])
    /\ UNCHANGED <<mode, registry, trace, rejections, nodeVars, planVars, batchVars, auxVars>>

\* One round of the retry loop (lines 270-338).
StoreValidate ==
    /\ mode = "store" /\ Running
    /\ Top.pc = "validate"
    /\ \E verdict \in Verdicts :
       LET f          == Top
           vc         == registry[f.vidx]
           node_id    == next_node_id(f.parent_node_id, f.cur_step_count)
           validation == run_step_validator(vc, verdict, f.cur, node_id, node_id, 0)
           appended   == Append(trace, validation.event)
           g          == [f EXCEPT !.vcalls = @ + 1, !.node_id = node_id,
                                   !.indices = Append(@, f.cur_step_count),
                                   !.validation = [verdict |-> validation.verdict,
                                                   is_valid |-> validation.is_valid,
                                                   rejection_message |->
                                                       validation.rejection_message],
                                   !.all_rejected = (f.vcalls = 0 \/ f.all_rejected)
                                                    /\ ~validation.is_valid]
       IN  /\ verdict # "approve" => rejections < RejectionBudget
           /\ rejections' = IF verdict = "approve" THEN rejections ELSE rejections + 1
           /\ IF validation.is_valid
              THEN /\ trace' = appended
                   /\ stack' = SetTop(Validated(g, f.cur, f.cur_step_count + 1, node_id))
                   /\ UNCHANGED result
              ELSE /\ trace' = LogRejected(appended, f, node_id)
                   /\ LET h == [g EXCEPT !.cur_step_count = @ + 1]
                          feedback == RejectionFeedback(f.conversation, f.cur,
                                                        validation.rejection_message)
                      IN  IF f.attempt < vc.max_attempts
                          THEN \/ /\ \E p \in Proposals(f.agent, f.calls + 1) :
                                       stack' = SetTop(AfterRejection(
                                          [h EXCEPT !.cur = p, !.calls = @ + 1,
                                                    !.reprops = @ + 1,
                                                    !.proposed = Append(@, p),
                                                    !.conversation = feedback.conversation,
                                                    !.temp_conversation =
                                                        feedback.temp_conversation],
                                          vc.max_attempts, node_id))
                                  /\ UNCHANGED result
                               \/ /\ stack' = <<>>
                                  /\ result' = Raised("LLMError", h)
                          ELSE /\ stack' = SetTop(AfterRejection(h, vc.max_attempts, node_id))
                               /\ UNCHANGED result
    /\ UNCHANGED <<mode, registry, nodeVars, planVars, batchVars, auxVars>>

\* Lines 623-630: a call with neither function nor functions.
StoreExecUnknown ==
    /\ mode = "store" /\ Running
    /\ Top.pc = "execute" /\ Top.llm_result.kind = "unknown"
    /\ stack' = <<>>
    /\ result' = Raised("ValueError", Top)
    /\ UNCHANGED <<mode, registry, trace, rejections, nodeVars, planVars, batchVars, auxVars>>

\* A run_agent_loop invocation returns to its caller: the runner, or
\* execute_meta_tool of the delegating agent (lines 518-522).
ReturnToCaller(f, status, job) ==
    IF Len(stack) = 1
    THEN /\ stack' = <<>>
         /\ result' = Returned(status, f, job)
    ELSE /\ stack' = [Pop(stack) EXCEPT ![Len(stack) - 1] =
                        [@ EXCEPT !.subret = [subagent_name |-> f.agent,
                                              status        |-> status,
                                              report        |-> ToString(job.pid),
                                              executed      |-> job],
                                  !.pc = "after_meta"]]
         /\ UNCHANGED result

\* Lines 632-659: terminal action.
StoreExecTerminal ==
    /\ mode = "store" /\ Running
    /\ Top.pc = "execute"
    /\ LET f   == Top
           job == f.llm_result
       IN  /\ job.kind # "unknown"
           /\ is_terminal_action(job.kind)
           /\ trace' = Append(trace,
                         create_trace_event(f.node_id, f.parent_node_id, f.step_count - 1,
                                            f.agent, f.conversation,
                                            Output("step", job, FALSE), <<>>, NoSub))
           /\ ReturnToCaller(f, StoreStatus(job.outcome), job)
    /\ UNCHANGED <<mode, registry, rejections, nodeVars, planVars, batchVars, auxVars>>

\* Variant that runs the sub-agent as a sibling of the delegating step.
execute_meta_tool_as_sibling(job, orchestrator_log, parent_node_id) ==
    LET context == build_subagent_context(orchestrator_log, ToString(job.pid))
    IN  Frame(AGENT_REGISTRY("BasketBuilder"), context, RootId,
              <<Msg("system", SystemPrompt), Msg("user", context)>>)

\* execute_meta_tool lines 497-516: the invocation of run_agent_loop for the
\* sub-agent; orchestrator_log=None gives it a full log of its own (lines 583-588).
execute_meta_tool(job, orchestrator_log, parent_node_id) ==
    LET context == build_subagent_context(orchestrator_log, ToString(job.pid))
    IN  Frame(AGENT_REGISTRY("BasketBuilder"), context, parent_node_id,
              <<Msg("system", SystemPrompt), Msg("user", context)>>)

\* Lines 661-685 with execute_meta_tool lines 497-516: spawn the sub-agent.
StoreExecMeta ==
    /\ mode = "store" /\ Running
    /\ Top.pc = "execute"
    /\ LET f   == Top
           job == f.llm_result
       IN  /\ ~is_terminal_action(job.kind)
           /\ f.tool_type = "meta" /\ is_meta_tool(job.kind)
           /\ job.kind = "meta"
           /\ stack' = Append(SetTop([f EXCEPT !.pc = "wait_sub"]),
                              execute_meta_tool(job, f.full_log, f.node_id))
    /\ UNCHANGED <<mode, registry, trace, result, rejections, nodeVars, planVars, batchVars, auxVars>>

\* execute_product_explorer_direct (lines 354-456): one LLM call, no loop.
StoreExecExplorer ==
    /\ mode = "store" /\ Running
    /\ Top.pc = "execute"
    /\ LET f   == Top
           job == f.llm_result
       IN  /\ ~is_terminal_action(job.kind)
           /\ f.tool_type = "meta" /\ is_meta_tool(job.kind)
           /\ job.kind = "explorer"
           /\ \E llm_ok \in BOOLEAN :
              LET node_id  == next_node_id(f.node_id, 0)
                  products == execute_single_call(Fn("get_all_products", "ok", FALSE))
                  context  == build_subagent_context(f.full_log, ToString(job.pid))
                  input    == <<Msg("user", context \o <<"PRODUCT CATALOG:">>)>>
                  answer   == Proposal(1, "explorer_report", "", <<>>)
              IN  /\ trace' = Append(trace,
                        create_trace_event(node_id, f.node_id, 0, "ProductExplorer", input,
                            Output(IF llm_ok THEN "step" ELSE "error", answer, FALSE),
                            IF llm_ok THEN products.tool_calls ELSE <<>>, NoSub))
                  /\ stack' = SetTop([f EXCEPT
                        !.subret = [subagent_name |-> "ProductExplorer",
                                    status        |-> IF llm_ok THEN "completed" ELSE "refused",
                                    report        |-> IF llm_ok THEN "report" ELSE "failed",
                                    executed      |-> answer],
                        !.pc = "after_meta"])
    /\ UNCHANGED <<mode, registry, result, rejections, nodeVars, planVars, batchVars, auxVars>>

Delegated(job, subagent_name) ==
    <<"Planned step:", ToString(job.pid), "Delegated to:", subagent_name,
      "Task:", ToString(job.pid)>>

\* Variant whose result turn also tells how many steps the sub-agent took.
AfterDelegationLeaky(f) ==
    LET job == f.llm_result
        result_formatted == format_subagent_result(f.subret.subagent_name, f.subret.status,
                                                   f.subret.report)
                            \o <<"Steps:", ToString(f.subret.executed.pid)>>
        turn == Msg("assistant", Delegated(job, f.subret.subagent_name))
    IN  [f EXCEPT
           !.conversation = inject_plan(f.conversation, job.remaining_work)
                              \o <<turn, Msg("user", result_formatted)>>,
           !.full_log     = inject_plan(f.full_log, job.remaining_work)
                              \o <<turn, Msg("user", result_formatted)>>,
           !.executed     = job,
           !.i            = @ + 1,
           !.pc           = "decide"]

\* Lines 706-728: conversation and full log after the sub-agent returned.
AfterDelegation(f) ==
    LET job == f.llm_result
        result_formatted == format_subagent_result(f.subret.subagent_name, f.subret.status,
                                                   f.subret.report)
        turn == Msg("assistant", Delegated(job, f.subret.subagent_name))
    IN  [f EXCEPT
           !.conversation = inject_plan(f.conversation, job.remaining_work)
                              \o <<turn, Msg("user", result_formatted)>>,
           !.full_log     = inject_plan(f.full_log, job.remaining_work)
                              \o <<turn, Msg("user", result_formatted)>>,
           !.executed     = job,
           !.i            = @ + 1,
           !.pc           = "decide"]

\* Lines 687-728: the sub-agent has returned.
StoreAfterMeta ==
    /\ mode = "store" /\ Running
    /\ Top.pc = "after_meta"
    /\ LET f   == Top
           job == f.llm_result
           sub == [subagent_name |-> f.subret.subagent_name,
                   status        |-> f.subret.status,
                   report        |-> f.subret.report]
       IN  /\ trace' = Append(trace,
                         create_trace_event(f.node_id, f.parent_node_id, f.step_count - 1,
                                            f.agent, f.conversation,
                                            Output("step", job, FALSE), <<>>, sub))
           /\ stack' = SetTop(AfterDelegation(f))
    /\ UNCHANGED <<mode, registry, result, rejections, nodeVars, planVars, batchVars, auxVars>>

BackendOutcomes == {"ok", "api_error"}

\* What the backend answers to the tool calls of one agent.  A failing call
\* comes back from execute_single_call as text like any other, and the store
\* loop does not look at it; failing answers to the store tools are drawn
\* where the tool functions themselves are specified.
OutcomesFor(agent) == IF agent = "Agent" THEN BackendOutcomes ELSE {"ok"}

\* execute_store_tools (tools.py lines 495-529)
\* Variant that treats every call_mode other than batch as single.
execute_store_tools_lenient(job, outcome) ==
    LET done == IF job.kind = "batch"
                THEN execute_batch(<<Fn("first", outcome, FALSE), Fn("second", "ok", FALSE)>>)
                ELSE execute_single_call(Fn("single", outcome, FALSE))
    IN  [raised |-> "", text |-> done.text, tool_calls |-> done.tool_calls]

execute_store_tools(job, outcome) ==
    IF job.kind \notin {"sdk", "batch"}
    THEN [raised |-> "ValueError", text |-> <<>>, tool_calls |-> <<>>]
    ELSE LET done == IF job.kind = "batch"
                     THEN execute_batch(<<Fn("first", outcome, FALSE),
                                          Fn("second", "ok", FALSE)>>)
                     ELSE execute_single_call(Fn("single", outcome, FALSE))
         IN  [raised |-> "", text |-> done.text, tool_calls |-> done.tool_calls]

\* Lines 730-775: SDK tool, single or batch.
StoreExecSdk ==
    /\ mode = "store" /\ Running
    /\ Top.pc = "execute"
    /\ LET f   == Top
           job == f.llm_result
       IN  /\ job.kind # "unknown"
           /\ ~is_terminal_action(job.kind)
           /\ ~(f.tool_type = "meta" /\ is_meta_tool(job.kind))
           /\ \E outcome \in OutcomesFor(f.agent) :
              LET sdk_result == execute_store_tools(job, outcome)
                  turn == Msg("assistant", <<"Planned step:", ToString(job.pid)>>)
              IN  IF sdk_result.raised # ""
                  THEN /\ stack' = <<>>
                       /\ result' = Raised(sdk_result.raised, f)
                       /\ UNCHANGED trace
                  ELSE /\ trace' = Append(trace,
                             create_trace_event(f.node_id, f.parent_node_id, f.step_count - 1,
                                                f.agent, f.conversation,
                                                Output("step", job, FALSE),
                                                sdk_result.tool_calls, NoSub))
                       /\ stack' = SetTop([f EXCEPT
                             !.conversation = Append(inject_plan(f.conversation, job.remaining_work), turn),
                             !.full_log     = Append(inject_plan(f.full_log, job.remaining_work), turn),
                             !.executed     = job,
                             !.i            = @ + 1,
                             !.pc           = "decide"])
                       /\ UNCHANGED result
    /\ UNCHANGED <<mode, registry, rejections, nodeVars, planVars, batchVars, auxVars>>

\* Variant in which execute_meta_tool catches the sub-agent's step-limit
\* error and hands the delegating agent a refusal.
AgentStepLimitErrorCaught(stk) ==
    IF Len(stk) > 1
    THEN [stack  |-> [Pop(stk) EXCEPT ![Len(stk) - 1] =
                        [@ EXCEPT !.subret = [subagent_name |-> Last(stk).agent,
                                              status        |-> "refused",
                                              report        |-> "step limit",
                                              executed      |-> NoProposal],
                                  !.pc = "after_meta"]],
          result |-> NoResult]
    ELSE [stack |-> <<>>, result |-> Raised("AgentStepLimitError", Last(stk))]

\* raise AgentStepLimitError: execute_meta_tool (lines 506-522) and the
\* delegating run_agent_loop (lines 676-704) have no handler, every
\* invocation on the call stack is left.
AgentStepLimitError(stk) ==
    [stack |-> <<>>, result |-> Raised("AgentStepLimitError", Last(stk))]

\* Line 778 (store), line 371 (ERC3): the for loop ran out.
StepLimit ==
    /\ mode \in {"store", "erc3"} /\ Running
    /\ Top.pc = "decide" /\ ~InRange(Top.i, Top.max_steps)
    /\ stack' = AgentStepLimitError(stack).stack
    /\ result' = AgentStepLimitError(stack).result
    /\ UNCHANGED <<mode, registry, trace, rejections, nodeVars, planVars, batchVars, auxVars>>

----------------------------------------------------------------------------
(* ERC3 benchmark: run_agent_loop (erc3/runtime/loop.py) *)

\* getattr(job, "function", None)
Erc3Function(p) == IF p.kind = "none" THEN "" ELSE p.kind

\* Lines 172-182: first validator whose triggers and agents match.
RECURSIVE Erc3FirstValidator(_, _, _, _)
Erc3FirstValidator(reg, k, function, agent_name) ==
    IF k > Len(reg) THEN 0
    ELSE LET v == reg[k]
             tool_matches  == function \in v.triggers
             agent_matches == "*" \in v.applies_to \/ agent_name \in v.applies_to
         IN  IF tool_matches /\ agent_matches THEN k
             ELSE Erc3FirstValidator(reg, k + 1, function, agent_name)

\* Variant whose recursive call does not pass current_recursion_depth + 1.
Erc3BeginValidationDepthZero(f, p, step_count, depth) ==
    LET function == Erc3Function(p)
        v == IF function = "" THEN 0
             ELSE Erc3FirstValidator(registry, 1, function, f.agent)
    IN  IF v = 0
        THEN Validated([f EXCEPT !.indices = Append(@, step_count)],
                       p, step_count + 1, next_node_id(f.parent_node_id, step_count))
        ELSE [f EXCEPT !.vidx = v, !.attempt = 0, !.cur_step_count = step_count,
                       !.depth = 0, !.pc = "validate"]

\* Lines 160-194: entry of validate_and_retry_step up to the retry loop.
Erc3BeginValidation(f, p, step_count, depth) ==
    LET function == Erc3Function(p)
        v == IF function = "" THEN 0
             ELSE Erc3FirstValidator(registry, 1, function, f.agent)
    IN  IF v = 0
        THEN Validated([f EXCEPT !.indices = Append(@, step_count)],
                       p, step_count + 1, next_node_id(f.parent_node_id, step_count))
        ELSE [f EXCEPT !.vidx = v, !.attempt = 0, !.cur_step_count = step_count,
                       !.depth = depth, !.pc = "validate"]

\* Lines 301-319.
Erc3Decide ==
    /\ mode = "erc3" /\ Running
    /\ Top.pc = "decide" /\ InRange(Top.i, Top.max_steps)
    /\ \E p \in Proposals(Top.agent, Top.calls + 1) :
          stack' = SetTop(Erc3BeginValidation(
                     [Top EXCEPT !.calls = @ + 1, !.decides = @ + 1, !.llm_result = p,
                                 !.cur = p, !.proposed = <<p>>, !.vcalls = 0,
                                 !.reprops = 0, !.all_rejected = FALSE, !.depth = 0,
                                 !.switched = FALSE, !.validation = NoValidation,
                                 !.temp_conversation = <<>>],
                     p, Top.step_count, 0))
    /\ UNCHANGED <<mode, registry, trace, result, rejections, nodeVars, planVars, batchVars, auxVars>>

\* Lines 200-205: the re-proposal left the validator's triggers.
Erc3ToolSwitch ==
    /\ mode = "erc3" /\ Running
    /\ Top.pc = "validate"
    /\ LET f  == Top
           vc == registry[f.vidx]
           g  == [f EXCEPT !.switched = TRUE]
       IN  /\ Erc3Function(f.cur) \notin vc.triggers
           /\ stack' = SetTop(
                 IF f.depth >= RecursionCap
                 THEN Validated([g EXCEPT !.indices = Append(@, f.cur_step_count)],
                                f.cur, f.cur_step_count,
                                next_node_id(f.parent_node_id, f.cur_step_count))
                 ELSE Erc3BeginValidation(g, f.cur, f.cur_step_count, f.depth + 1))
    /\ UNCHANGED <<mode, registry, trace, result, rejections, nodeVars, planVars, batchVars, auxVars>>

\* Lines 207-263: one round of the retry loop.
Erc3Validate ==
    /\ mode = "erc3" /\ Running
    /\ Top.pc = "validate"
    /\ Erc3Function(Top.cur) \in registry[Top.vidx].triggers
    /\ \E verdict \in Verdicts :
       LET f          == Top
           vc         == registry[f.vidx]
           node_id    == next_node_id(f.parent_node_id, f.cur_step_count)
           validation == run_step_validator(vc, verdict, f.cur, node_id, node_id, 0)
           appended   == Append(trace, validation.event)
           g          == [f EXCEPT !.vcalls = @ + 1, !.node_id = node_id,
                                   !.indices = Append(@, f.cur_step_count),
                                   !.validation = [verdict |-> validation.verdict,
                                                   is_valid |-> validation.is_valid,
                                                   rejection_message |->
                                                       validation.rejection_message],
                                   !.all_rejected = (f.vcalls = 0 \/ f.all_rejected)
                                                    /\ ~validation.is_valid]
       IN  /\ verdict # "approve" => rejections < RejectionBudget
           /\ rejections' = IF verdict = "approve" THEN rejections ELSE rejections + 1
           /\ IF validation.is_valid
              THEN /\ trace' = appended
                   /\ stack' = SetTop(Validated(g, f.cur, f.cur_step_count + 1, node_id))
                   /\ UNCHANGED result
              ELSE /\ trace' = LogRejected(appended, f, node_id)
                   /\ LET h == [g EXCEPT !.cur_step_count = @ + 1]
                          feedback == RejectionFeedback(f.conversation, f.cur,
                                                        validation.rejection_message)
                      IN  IF f.attempt < vc.max_attempts
                          THEN \/ /\ \E p \in Proposals(f.agent, f.calls + 1) :
                                       stack' = SetTop(AfterRejection(
                                          [h EXCEPT !.cur = p, !.calls = @ + 1,
                                                    !.reprops = @ + 1,
                                                    !.proposed = Append(@, p),
                                                    !.conversation = feedback.conversation,
                                                    !.temp_conversation =
                                                        feedback.temp_conversation],
                                          vc.max_attempts, node_id))
                                  /\ UNCHANGED result
                               \/ /\ stack' = <<>>
                                  /\ result' = Raised("LLMError", h)
                          ELSE /\ stack' = SetTop(AfterRejection(h, vc.max_attempts, node_id))
                               /\ UNCHANGED result
    /\ UNCHANGED <<mode, registry, nodeVars, planVars, batchVars, auxVars>>

\* Lines 329-330.
Erc3ExecNone ==
    /\ mode = "erc3" /\ Running
    /\ Top.pc = "execute" /\ Erc3Function(Top.llm_result) = ""
    /\ stack' = <<>>
    /\ result' = Raised("ValueError", Top)
    /\ UNCHANGED <<mode, registry, trace, rejections, nodeVars, planVars, batchVars, auxVars>>

\* Lines 332-369: execute the tool, log, update the conversation, return if terminal.
Erc3Execute ==
    /\ mode = "erc3" /\ Running
    /\ Top.pc = "execute" /\ Erc3Function(Top.llm_result) # ""
    /\ \E outcome \in IF Top.llm_result.kind = "load" THEN {"ok"} ELSE BackendOutcomes :
       LET f          == Top
           job        == f.llm_result
           sdk_result == execute_single_call(Fn(job.kind, outcome, FALSE))
           turn       == Msg("assistant", <<"Step completed.", ToString(job.pid)>>)
           g          == [f EXCEPT
                            !.conversation = Append(inject_plan(f.conversation,
                                                                job.remaining_work), turn),
                            !.full_log     = Append(inject_plan(f.conversation,
                                                                job.remaining_work), turn),
                            !.executed     = job]
       IN  /\ trace' = Append(trace,
                 create_trace_event(f.node_id, f.parent_node_id, f.step_count - 1,
                                    f.agent, f.conversation, Output("step", job, FALSE),
                                    sdk_result.tool_calls, NoSub))
           /\ IF is_terminal_action(job.kind)
              THEN ReturnToCaller(g, Erc3Status(job.outcome), job)
              ELSE /\ stack' = SetTop([g EXCEPT !.i = @ + 1, !.pc = "decide"])
                   /\ UNCHANGED result
    /\ UNCHANGED <<mode, registry, rejections, nodeVars, planVars, batchVars, auxVars>>

----------------------------------------------------------------------------
(* Specification of the agent loops *)

NoBatch == [text |-> <<>>, tool_calls |-> <<>>, dispatched |-> <<>>]

IdleNode  == nid_parent = NoneId /\ nid_index = 0 /\ nid_out = NoneId
IdlePlan  == plan_conv = <<>> /\ plan_last = <<>> /\ plan_calls = 0 /\ plan_loop = <<>>
IdleBatch == batch_fns = <<>> /\ batch_out = NoBatch /\ dispatched = <<>>
NoCall    == [done |-> FALSE, b |-> <<>>, raised |-> "", response |-> <<>>]
IdleCall  == call_fn = <<>> /\ call_backend = <<>> /\ call_out = NoCall
IdleDwt   == dwt_backend = <<>> /\ dwt_clock = 0 /\ dwt_worker = "" /\ dwt_caller = ""
NoStep    == [done |-> FALSE, raised |-> "", attempt |-> -1]
IdleGw    == gw_script = <<>> /\ gw_task_ctx = FALSE /\ gw_attempt = 0 /\ gw_requests = 0
             /\ gw_out = NoStep
NoReport  == [done |-> FALSE, raised |-> "", code |-> "", trace |-> <<>>, scored |-> FALSE]
NoLoopEnd == [kind |-> "none", status |-> ""]
IdleRun   == run_bench = "" /\ run_platform = <<>> /\ run_pc = "" /\ run_loop = NoLoopEnd
             /\ run_trace = <<>> /\ run_completions = 0 /\ run_report = NoReport
NoPages   == [done |-> FALSE, raised |-> "", items |-> <<>>, complete |-> FALSE,
              errors |-> <<>>, pages_fetched |-> 0, fetches |-> 0, sent |-> <<>>]
IdlePg    == pg_server = <<>> /\ pg_out = NoPages
IdleDel   == del_before = <<>> /\ del_after = <<>>
IdlePar   == par_heap = <<>> /\ par_runs = <<>>
IdleTv    == tv_loop = <<>> /\ tv_out = <<>>
IdleAux   == IdleCall /\ IdleDwt /\ IdleGw /\ IdleRun /\ IdlePg /\ IdleDel /\ IdlePar /\ IdleTv
IdleLoop  == registry = <<>> /\ trace = <<>> /\ stack = <<>> /\ result = NoResult
             /\ rejections = 0

\* run_store_benchmark lines 111-144, run_erc3_benchmark lines 184-250.
Init ==
    /\ \/ /\ mode = "store"
          /\ registry = StoreRegistry
          /\ stack = <<Frame(AGENT_REGISTRY("Orchestrator"), TaskText, RootId,
                             <<Msg("system", SystemPrompt), Msg("user", TaskText)>>)>>
       \/ /\ mode = "erc3"
          /\ registry = Erc3Registry
          /\ stack = <<Frame(AGENT_REGISTRY("Agent"), TaskText, RootId, <<>>)>>
    /\ trace = <<>>
    /\ result = NoResult
    /\ rejections = 0
    /\ IdleNode /\ IdlePlan /\ IdleBatch /\ IdleAux

Next ==
    \/ StoreDecide
    \/ DecideFails
    \/ StoreValidate
    \/ StoreExecUnknown
    \/ StoreExecTerminal
    \/ StoreExecMeta
    \/ StoreExecExplorer
    \/ StoreAfterMeta
    \/ StoreExecSdk
    \/ StepLimit
    \/ Erc3Decide
    \/ Erc3ToolSwitch
    \/ Erc3Validate
    \/ Erc3ExecNone
    \/ Erc3Execute

Spec == Init /\ [][Next]_vars

----------------------------------------------------------------------------
(* Specification of the ERC3 loop under a registry with two validators *)

\* VALIDATOR_REGISTRY is an open dict that validate_and_retry_step scans for
\* the first match; with two validators of disjoint triggers a re-proposal can
\* move the step from one to the other and back.
InitCap ==
    /\ mode = "erc3"
    /\ registry = Erc3SplitRegistry
    /\ stack = <<Frame(AGENT_REGISTRY("Agent"), TaskText, RootId, <<>>)>>
    /\ trace = <<>>
    /\ result = NoResult
    /\ rejections = 0
    /\ IdleNode /\ IdlePlan /\ IdleBatch /\ IdleAux

NextCap ==
    \/ Erc3Decide
    \/ DecideFails
    \/ Erc3ToolSwitch
    \/ Erc3Validate
    \/ Erc3ExecNone
    \/ Erc3Execute
    \/ StepLimit

SpecCap == InitCap /\ [][NextCap]_vars

----------------------------------------------------------------------------
(* Specification of validator matching over bounded registries *)

\* VALIDATOR_REGISTRY entries: name, triggers_on_tools, applies_to_agents.
StoreValidators ==
    {Validator(n, t, a, MaxAttempts) :
        n \in {"StepValidator", "TerminalValidator"},
        t \in {{"*"}, {"terminal"}},
        a \in {{"*"}, {"BasketBuilder"}}}

Erc3Validators ==
    {Validator("StepValidator", t, a, MaxAttempts) :
        t \in {{"tool"}, {"respond", "load"}, NON_RESPOND_TOOLS},
        a \in {{"*"}, {"Orchestrator"}}}

Registries(validators) ==
    UNION {[1 .. n -> validators] : n \in 0 .. MaxValidators}

\* One step of either loop: the decision and validate_and_retry_step.
InitMatch ==
    /\ \/ /\ mode = "store"
          /\ registry \in Registries(StoreValidators)
          /\ stack = <<Frame(AGENT_REGISTRY("Orchestrator"), TaskText, RootId,
                             <<Msg("system", SystemPrompt), Msg("user", TaskText)>>)>>
       \/ /\ mode = "erc3"
          /\ registry \in Registries(Erc3Validators)
          /\ stack = <<Frame(AGENT_REGISTRY("Agent"), TaskText, RootId, <<>>)>>
    /\ trace = <<>>
    /\ result = NoResult
    /\ rejections = 0
    /\ IdleNode /\ IdlePlan /\ IdleBatch /\ IdleAux

NextMatch ==
    \/ StoreDecide
    \/ StoreValidate
    \/ Erc3Decide
    \/ Erc3ToolSwitch
    \/ Erc3Validate

SpecMatch == InitMatch /\ [][NextMatch]_vars

----------------------------------------------------------------------------
(* Specification of the delegation step for two agents side by side *)

\* Conversation and full log of an orchestrator before its second step.
PriorLogs ==
    LET first == <<Msg("user", TaskText)>>
        log   == <<Msg("system", SystemPrompt), Msg("user", TaskText)>>
        turn  == Msg("assistant", Delegated(Proposal(1, "explorer", "", <<>>),
                                            "ProductExplorer"))
        back  == Msg("user", format_subagent_result("ProductExplorer", "completed", "report"))
        plan  == <<"after step", "1">>
    IN  {[conversation |-> first, full_log |-> log],
         [conversation |-> inject_plan(first, plan) \o <<turn, back>>,
          full_log     |-> inject_plan(log, plan) \o <<turn, back>>]}

DelegationJobs ==
    {Proposal(2, k, "", w) : k \in META_TOOLS, w \in {<<>>, <<"after step", "2">>}}

\* What execute_meta_tool hands back, with the sub-agent's last decision:
\* its number tells how many steps the sub-agent took.
SubReturns(job) ==
    {[subagent_name |-> IF job.kind = "explorer" THEN "ProductExplorer" ELSE "BasketBuilder",
      status        |-> StoreStatus(o),
      report        |-> r,
      executed      |-> Proposal(n, "terminal", o, <<>>)] :
        o \in {"success", "failure"}, r \in {"r1", "r2"}, n \in 1 .. MaxInternal}

Delegating ==
    UNION {{[Frame(AGENT_REGISTRY("Orchestrator"), TaskText, RootId, c.full_log)
               EXCEPT !.conversation = c.conversation, !.llm_result = job, !.cur = job,
                      !.node_id = <<2>>, !.step_count = 2, !.i = 1,
                      !.subret = sr, !.pc = "after_meta"] :
              sr \in SubReturns(job)} : c \in PriorLogs, job \in DelegationJobs}

InitDelegation ==
    /\ mode = "delegation"
    /\ del_before \in [1 .. 2 -> Delegating]
    /\ del_after = <<>>
    /\ IdleLoop /\ IdleNode /\ IdlePlan /\ IdleBatch /\ IdlePar /\ IdleTv
    /\ IdleCall /\ IdleDwt /\ IdleGw /\ IdleRun /\ IdlePg

DelegationReturns ==
    /\ mode = "delegation" /\ del_after = <<>>
    /\ del_after' = [k \in 1 .. 2 |-> AfterDelegation(del_before[k])]
    /\ UNCHANGED <<mode, loopVars, nodeVars, planVars, batchVars, callVars, dwtVars,
                   gwVars, runVars, pgVars, parVars, tvVars, del_before>>

NextDelegation == DelegationReturns

SpecDelegation == InitDelegation /\ [][NextDelegation]_vars

----------------------------------------------------------------------------
(* Specification of task runs executing in parallel (erc_utilities.py,
   benchmarks/store/runner.py) *)

\* Objects live in par_heap; a run holds references (positions) to the ones
\* it works on.  Variant in which the k-th object of a run is a module-level
\* one, the same for every run.
NewObjectShared(heap, k) == k

\* "trace = []", "orchestrator_log = [...]", "erc_client.get_store_client(task)":
\* each evaluation creates an object no other run refers to.
NewObject(heap, k) == Len(heap) + k

NotStarted == [pc |-> "submitted", trace |-> 0, orchestrator_log |-> 0,
               benchmark_client |-> 0, steps |-> 0]

Written(run, n, what) == [run |-> run, n |-> n, what |-> what]

\* _run_parallel lines 72-88: one future per item.
InitParallel ==
    /\ mode = "parallel"
    /\ par_heap = <<>>
    /\ par_runs = [r \in 1 .. MaxRuns |-> NotStarted]
    /\ IdleLoop /\ IdleNode /\ IdlePlan /\ IdleBatch /\ IdleTv
    /\ IdleCall /\ IdleDwt /\ IdleGw /\ IdleRun /\ IdlePg /\ IdleDel

\* run_store_benchmark lines 111-131: the run's client, trace and log.
RunStarts(r) ==
    /\ mode = "parallel" /\ par_runs[r].pc = "submitted"
    /\ par_heap' = par_heap \o <<<<>>, <<>>, <<Written(r, 0, "task")>>>>
    /\ par_runs' = [par_runs EXCEPT ![r] =
                       [pc |-> "loop", benchmark_client |-> NewObject(par_heap, 1),
                        trace |-> NewObject(par_heap, 2),
                        orchestrator_log |-> NewObject(par_heap, 3), steps |-> 0]]

\* One iteration of the run's agent loop: a backend request (tool step) or
\* none (delegation bookkeeping), one trace event, one turn in the log.
RunSteps(r) ==
    /\ mode = "parallel" /\ par_runs[r].pc = "loop"
    /\ par_runs[r].steps < MaxTrace
    /\ \E tool \in BOOLEAN :
       LET run == par_runs[r]
           n   == run.steps + 1
           requested == IF tool
                        THEN [par_heap EXCEPT ![run.benchmark_client] =
                                  Append(@, Written(r, n, "request"))]
                        ELSE par_heap
           logged    == [requested EXCEPT ![run.trace] =
                                  Append(@, Written(r, n, "agent_step"))]
       IN  par_heap' = [logged EXCEPT ![run.orchestrator_log] =
                                  Append(@, Written(r, n, "turn"))]
    /\ par_runs' = [par_runs EXCEPT ![r].steps = @ + 1]

\* The loop returns (or raises) and the run's future completes.
RunEnds(r) ==
    /\ mode = "parallel" /\ par_runs[r].pc = "loop"
    /\ par_runs' = [par_runs EXCEPT ![r].pc = "done"]
    /\ UNCHANGED par_heap

NextParallel ==
    /\ \E r \in 1 .. MaxRuns : RunStarts(r) \/ RunSteps(r) \/ RunEnds(r)
    /\ UNCHANGED <<mode, loopVars, nodeVars, planVars, batchVars, callVars, dwtVars,
                   gwVars, runVars, pgVars, delVars, tvVars>>

SpecParallel == InitParallel /\ [][NextParallel]_vars

----------------------------------------------------------------------------
(* Specification of next_node_id / calculate_depth on bounded inputs *)

Indices == 0 .. MaxIndex

\* Parent ids: None, the sentinel "0", and the ids of depth 0 and 1.
ParentIds ==
    {NoneId, RootId}
    \cup {<<a + 1>> : a \in Indices}
    \cup {<<a + 1, Dot, b + 1>> : a \in Indices, b \in Indices}

InitNode ==
    /\ mode = "node"
    /\ nid_parent \in ParentIds
    /\ nid_index \in Indices
    /\ nid_out = NoneId
    /\ IdleLoop /\ IdlePlan /\ IdleBatch /\ IdleAux

NodeCall ==
    /\ mode = "node"
    /\ nid_out = NoneId
    /\ nid_out' = next_node_id(nid_parent, nid_index)
    /\ UNCHANGED <<mode, nid_parent, nid_index, loopVars, planVars, batchVars, auxVars>>

\* The id just produced becomes the parent of a further step.
NodeDescend ==
    /\ mode = "node"
    /\ nid_out # NoneId
    /\ Len(nid_out) < MaxIdLen
    /\ nid_parent' = nid_out
    /\ nid_index' \in Indices
    /\ nid_out' = NoneId
    /\ UNCHANGED <<mode, loopVars, planVars, batchVars, auxVars>>

NextNode == NodeCall \/ NodeDescend

SpecNode == InitNode /\ [][NextNode]_vars

----------------------------------------------------------------------------
(* Specification of inject_plan on bounded conversations *)

\* remaining_work lists; None takes the same branch as the empty list.
WorkLists == {<<>>, <<"a">>, <<"b">>, <<"a", "b">>}

MessagePool ==
    {Msg("user", <<"task">>),
     Msg("assistant", <<"Planned step:", "x">>),
     Msg("user", <<PlanHead, "1", "old">>),
     Msg("user", <<"Sub-agent:", "BasketBuilder">>)}

InitialConversations ==
    UNION {[1 .. n -> MessagePool] : n \in 0 .. 3}

InitPlan ==
    /\ mode = "plan"
    /\ plan_conv \in InitialConversations
    /\ plan_last = <<>>
    /\ plan_calls = 0
    /\ plan_loop = <<>>
    /\ IdleLoop /\ IdleNode /\ IdleBatch /\ IdleAux

InjectPlanCall ==
    /\ mode = "plan"
    /\ plan_calls < MaxPlanCalls
    /\ \E remaining_work \in WorkLists :
          /\ plan_conv' = inject_plan(plan_conv, remaining_work)
          /\ plan_last' = remaining_work
    /\ plan_calls' = plan_calls + 1
    /\ UNCHANGED <<mode, plan_loop, loopVars, nodeVars, batchVars, auxVars>>

NextPlan == InjectPlanCall

SpecPlan == InitPlan /\ [][NextPlan]_vars

----------------------------------------------------------------------------
(* Specification of the conversation a store run_agent_loop keeps *)

\* Task texts of the benchmark: the Orchestrator's first message is the task
\* text as it comes (store/runner.py line 137), a sub-agent's is built by
\* build_subagent_context.
TaskTexts == {TaskText, <<PlanHead, "two GPUs">>}

Reports == {"done", PlanHead}

\* store_agent_loop.py line 574.
InitTurns ==
    /\ mode = "turns"
    /\ \E t \in TaskTexts :
          \/ plan_conv = <<Msg("user", t)>>
          \/ plan_conv = <<Msg("user",
                 build_subagent_context(<<Msg("system", SystemPrompt), Msg("user", t)>>, "1"))>>
    /\ plan_loop = plan_conv
    /\ plan_last = <<>>
    /\ plan_calls = 0
    /\ IdleLoop /\ IdleNode /\ IdleBatch /\ IdleAux

\* Lines 713-719: conversation update after a delegation.
DelegationTurn ==
    /\ mode = "turns"
    /\ plan_calls < MaxPlanCalls
    /\ plan_loop[1].content \in TaskTexts
    /\ \E remaining_work \in WorkLists, status \in {"completed", "refused"}, report \in Reports :
          LET turns == <<Msg("assistant", <<"Planned step:", "x", "Delegated to:",
                                            "BasketBuilder", "Task:", "1">>),
                         Msg("user", format_subagent_result("BasketBuilder", status, report))>>
          IN  /\ plan_conv' = inject_plan(plan_conv, remaining_work) \o turns
              /\ plan_loop' = plan_loop \o turns
              /\ plan_last' = remaining_work
    /\ plan_calls' = plan_calls + 1
    /\ UNCHANGED <<mode, loopVars, nodeVars, batchVars, auxVars>>

\* Lines 769-771: conversation update after SDK calls.
SdkTurn ==
    /\ mode = "turns"
    /\ plan_calls < MaxPlanCalls
    /\ plan_loop[1].content \notin TaskTexts
    /\ \E remaining_work \in WorkLists, text \in Reports :
          LET turn == Msg("assistant", <<"Planned step:", "x", "Response:", text>>)
          IN  /\ plan_conv' = Append(inject_plan(plan_conv, remaining_work), turn)
              /\ plan_loop' = Append(plan_loop, turn)
              /\ plan_last' = remaining_work
    /\ plan_calls' = plan_calls + 1
    /\ UNCHANGED <<mode, loopVars, nodeVars, batchVars, auxVars>>

NextTurns == DelegationTurn \/ SdkTurn

SpecTurns == InitTurns /\ [][NextTurns]_vars

----------------------------------------------------------------------------
(* Specification of execute_batch against a fake backend *)

FnOutcomes == {"ok", "timeout", "api_error"}

BatchesOfLen(n) ==
    {[k \in 1 .. n |-> Fn(ToString(k), o[k], c[k])] :
        o \in [1 .. n -> FnOutcomes], c \in [1 .. n -> BOOLEAN]}

InitBatch ==
    /\ mode = "batch"
    /\ batch_fns \in UNION {BatchesOfLen(n) : n \in 0 .. MaxBatch}
    /\ batch_out = NoBatch
    /\ dispatched = <<>>
    /\ IdleLoop /\ IdleNode /\ IdlePlan /\ IdleAux

ExecuteBatchCall ==
    /\ mode = "batch"
    /\ batch_out = NoBatch /\ dispatched = <<>>
    /\ batch_fns # <<>>
    /\ LET r == execute_batch(batch_fns)
       IN  /\ batch_out' = [text |-> r.text, tool_calls |-> r.tool_calls, dispatched |-> <<>>]
           /\ dispatched' = r.dispatched
    /\ UNCHANGED <<mode, batch_fns, loopVars, nodeVars, planVars, auxVars>>

NextBatch == ExecuteBatchCall

SpecBatch == InitBatch /\ [][NextBatch]_vars

(* Single tool calls against a scripted store backend *)

FailureSets == {S \in SUBSET (1..MaxScript) : Cardinality(S) <= MaxFailures}

\* Only the first dispatch of a call can sit under the deadline of
\* dispatch_with_timeout, so only the first answer is scripted as late.
Scripts ==
    UNION {{[i \in 1..MaxScript |-> IF i \in S THEN (IF i = 1 THEN first ELSE "api_error") ELSE "ok"] :
               first \in {"api_error", "timeout"}} : S \in FailureSets}

Baskets == {<<>>, <<"p1">>, <<"p1", "p2">>}

Backends ==
    {Backend(script, items, coupon, MaxPages) :
        script \in Scripts, items \in Baskets, coupon \in {"", "OLD"}}

StandardTools ==
    {<<"view", "">>, <<"add", "p3">>, <<"apply", "SAVE">>, <<"remove_item", "p1">>,
     <<"remove_coupon", "">>, <<"checkout", "">>}

Functions ==
    {Tool(m, t[1], t[2], <<>>, <<>>) : m \in {"infrastructure", "store"}, t \in StandardTools}
    \cup {Tool(m, "get_all_products", "", <<>>, <<>>) : m \in {"infrastructure", "store"}}
    \cup {Tool("infrastructure", "test_coupons", "", <<>>, cs) : cs \in {<<"SAVE">>, <<"BAD", "SAVE">>}}
    \cup {Tool("store", "set_basket", "", ps, cs) :
              ps \in {<<>>, <<"p1", "p3">>}, cs \in {<<>>, <<"SAVE">>, <<"BAD", "SAVE">>}}

InitCall ==
    /\ mode = "call"
    /\ call_fn \in Functions
    /\ call_backend \in Backends
    /\ call_out = NoCall
    /\ IdleLoop /\ IdleNode /\ IdlePlan /\ IdleBatch /\ IdleDwt /\ IdleGw /\ IdleRun /\ IdlePg /\ IdleDel /\ IdlePar /\ IdleTv

InfrastructureSingleCall ==
    /\ mode = "call" /\ ~call_out.done
    /\ call_fn.module = "infrastructure"
    /\ call_out' = infrastructure_execute_single_call(call_backend, call_fn)
    /\ UNCHANGED <<mode, call_fn, call_backend, loopVars, nodeVars, planVars, batchVars, dwtVars, gwVars, runVars, pgVars, delVars, parVars, tvVars>>

StoreSingleCall ==
    /\ mode = "call" /\ ~call_out.done
    /\ call_fn.module = "store"
    /\ call_out' = store_execute_single_call(call_backend, call_fn)
    /\ UNCHANGED <<mode, call_fn, call_backend, loopVars, nodeVars, planVars, batchVars, dwtVars, gwVars, runVars, pgVars, delVars, parVars, tvVars>>

NextCall == InfrastructureSingleCall \/ StoreSingleCall

SpecCall == InitCall /\ [][NextCall]_vars

(* dispatch_with_timeout, thread by thread (infrastructure.py lines 338-358) *)

\* latency: ticks the backend needs for the request; Never for a dispatch
\* that does not complete.
Never == -1

Latencies == (0 .. MaxClock) \cup {Never}

InitTimeout ==
    /\ mode = "timeout"
    /\ dwt_backend \in [latency : Latencies, outcome : {"ok", "api_error"},
                        request : {t[1] : t \in StandardTools}]
    /\ dwt_clock = 0
    /\ dwt_worker = "unstarted"
    /\ dwt_caller = "entered"
    /\ IdleLoop /\ IdleNode /\ IdlePlan /\ IdleBatch /\ IdleCall /\ IdleGw /\ IdleRun /\ IdlePg /\ IdleDel /\ IdlePar /\ IdleTv

Finished == {"returned", "raised ApiException", "raised TimeoutError"}

\* executor.submit(benchmark_client.dispatch, function); future.result(timeout=...)
Submit ==
    /\ mode = "timeout" /\ dwt_caller = "entered"
    /\ dwt_worker' = "running"
    /\ dwt_caller' = "waiting for result"
    /\ UNCHANGED <<mode, dwt_backend, dwt_clock, loopVars, nodeVars, planVars, batchVars, callVars, gwVars, runVars, pgVars, delVars, parVars, tvVars>>

Tick ==
    /\ mode = "timeout" /\ dwt_caller \notin Finished
    /\ dwt_clock < MaxClock
    /\ dwt_clock' = dwt_clock + 1
    /\ UNCHANGED <<mode, dwt_backend, dwt_worker, dwt_caller, loopVars, nodeVars, planVars, batchVars, callVars, gwVars, runVars, pgVars, delVars, parVars, tvVars>>

\* benchmark_client.dispatch returns or raises on the worker thread.
WorkerCompletes ==
    /\ mode = "timeout" /\ dwt_worker = "running"
    /\ dwt_backend.latency # Never
    /\ dwt_clock >= dwt_backend.latency
    /\ dwt_worker' = IF dwt_backend.outcome = "ok" THEN "done" ELSE "failed"
    /\ UNCHANGED <<mode, dwt_backend, dwt_clock, dwt_caller, loopVars, nodeVars, planVars, batchVars, callVars, gwVars, runVars, pgVars, delVars, parVars, tvVars>>

\* future.result hands over the outcome of a finished dispatch; leaving the
\* with-block shuts the executor down, at once as its worker is finished.
ResultArrives ==
    /\ mode = "timeout" /\ dwt_caller = "waiting for result"
    /\ dwt_worker \in {"done", "failed"}
    /\ dwt_caller' = IF dwt_worker = "done" THEN "returned" ELSE "raised ApiException"
    /\ UNCHANGED <<mode, dwt_backend, dwt_clock, dwt_worker, loopVars, nodeVars, planVars, batchVars, callVars, gwVars, runVars, pgVars, delVars, parVars, tvVars>>

\* TimeoutError is raised inside the with-block, whose exit is
\* executor.shutdown(wait=True): the caller joins the worker thread.
leave_with_block == "joining worker"

\* future.result(timeout=timeout_seconds) gives up.
DeadlinePasses ==
    /\ mode = "timeout" /\ dwt_caller = "waiting for result"
    /\ dwt_worker = "running"
    /\ dwt_clock >= TimeoutTicks
    /\ dwt_caller' = leave_with_block
    /\ UNCHANGED <<mode, dwt_backend, dwt_clock, dwt_worker, loopVars, nodeVars, planVars, batchVars, callVars, gwVars, runVars, pgVars, delVars, parVars, tvVars>>

\* shutdown(wait=True) returns when the worker thread has ended; only then
\* does TimeoutError reach the caller of dispatch_with_timeout.
WorkerJoined ==
    /\ mode = "timeout" /\ dwt_caller = "joining worker"
    /\ dwt_worker \in {"done", "failed"}
    /\ dwt_caller' = "raised TimeoutError"
    /\ UNCHANGED <<mode, dwt_backend, dwt_clock, dwt_worker, loopVars, nodeVars, planVars, batchVars, callVars, gwVars, runVars, pgVars, delVars, parVars, tvVars>>

NextTimeout ==
    Submit \/ Tick \/ WorkerCompletes \/ ResultArrives \/ DeadlinePasses \/ WorkerJoined

SpecTimeout == InitTimeout /\ [][NextTimeout]_vars

(* get_next_step, the LLM gateway (infrastructure.py lines 258-331) *)

\* One LLM request and what follows it inside the try: the request itself,
\* task_ctx.log_llm, and model_validate_json, each fine or raising.
Attempts == [request : {"ok", "APIError"}, log_llm : {"ok", "LogError"},
             parse : {"ok", "ValidationError"}]

\* Lines 293-318: the exception the try body ends with, "" when it returns.
TryBody(a, task_ctx) ==
    CASE a.request # "ok"              -> a.request
      [] task_ctx /\ a.log_llm # "ok"  -> a.log_llm
      [] a.parse # "ok"                -> a.parse
      [] OTHER                         -> ""

\* Line 327: if attempt < 3
may_retry_once(attempt) == attempt < 1
may_retry(attempt) == attempt < GatewayAttempts - 1

InitGateway ==
    /\ mode = "gateway"
    /\ gw_script \in [1 .. GatewayAttempts -> Attempts]
    /\ gw_task_ctx \in BOOLEAN
    /\ gw_attempt = 0
    /\ gw_requests = 0
    /\ gw_out = NoStep
    /\ IdleLoop /\ IdleNode /\ IdlePlan /\ IdleBatch /\ IdleCall /\ IdleDwt /\ IdleRun /\ IdlePg /\ IdleDel /\ IdlePar /\ IdleTv

\* One iteration of the retry loop.
GatewayAttempt ==
    /\ mode = "gateway" /\ ~gw_out.done
    /\ gw_attempt < GatewayAttempts
    /\ LET raised == TryBody(gw_script[gw_attempt + 1], gw_task_ctx)
       IN  /\ gw_requests' = gw_requests + 1
           /\ IF raised = ""
              THEN /\ gw_out' = [done |-> TRUE, raised |-> "", attempt |-> gw_attempt]
                   /\ UNCHANGED gw_attempt
              ELSE IF may_retry(gw_attempt)
              THEN /\ gw_attempt' = gw_attempt + 1
                   /\ UNCHANGED gw_out
              ELSE /\ gw_out' = [done |-> TRUE, raised |-> raised, attempt |-> gw_attempt]
                   /\ UNCHANGED gw_attempt
    /\ UNCHANGED <<mode, gw_script, gw_task_ctx, loopVars, nodeVars, planVars, batchVars, callVars, dwtVars, runVars, pgVars, delVars, parVars, tvVars>>

NextGateway == GatewayAttempt

SpecGateway == InitGateway /\ [][NextGateway]_vars

(* The runners: run_store_benchmark (store/runner.py lines 98-179),
   run_erc3_benchmark (erc3/runner.py lines 179-255) *)

\* run_platform: the outcome of each erc_client.complete_task call the runner
\* may make, and of the fallback Req_ProvideAgentResponse dispatch.
Platforms == [complete : [1 .. max_retries -> {"ok", "error"}], fallback : {"ok", "error"}]

Report(code, events, scored) ==
    [done |-> TRUE, raised |-> "", code |-> code, trace |-> events, scored |-> scored]

RunnerRaised(kind) ==
    [done |-> TRUE, raised |-> kind, code |-> "", trace |-> <<>>, scored |-> FALSE]

\* Number of complete_task calls of _complete_and_format_result: the loop
\* breaks at the first call that succeeds and gives up after max_retries.
RECURSIVE CompleteWithRetries(_, _)
CompleteWithRetries(platform, attempt) ==
    IF platform.complete[attempt] = "ok" THEN [calls |-> attempt, scored |-> TRUE]
    ELSE IF attempt < max_retries THEN CompleteWithRetries(platform, attempt + 1)
    ELSE [calls |-> attempt, scored |-> FALSE]

\* _complete_and_format_result (erc3/runner.py lines 111-146)
complete_and_format_result(platform, events, agent_result) ==
    LET completion == CompleteWithRetries(platform, 1)
    IN  [report |-> Report(agent_result.status, events, completion.scored),
         completions |-> completion.calls]

\* Variant that builds the report without asking for the evaluation.
handle_task_completion_unscored(platform, events, outcome) ==
    [report |-> Report(IF outcome = "success" THEN "completed" ELSE "refused", events, FALSE),
     completions |-> 0]

\* _handle_task_completion (store/runner.py lines 36-88): one complete_task
\* call, outside any try.
handle_task_completion(platform, events, outcome) ==
    [report |-> IF platform.complete[1] = "ok"
                THEN Report(IF outcome = "success" THEN "completed" ELSE "refused", events, TRUE)
                ELSE RunnerRaised("CompletionError"),
     completions |-> 1]

\* The step-limit branch: store/runner.py lines 156-179, and _handle_timeout
\* (erc3/runner.py lines 149-175) with its fallback response sent first.
\* Variant that reports a trace list of its own.
handle_timeout_fresh_trace(bench, platform, events) ==
    IF bench = "store"
    THEN [report |-> IF platform.complete[1] = "ok" THEN Report("timeout", <<>>, TRUE)
                     ELSE RunnerRaised("CompletionError"),
          completions |-> 1]
    ELSE complete_and_format_result(platform, <<>>, [status |-> "timeout"])

handle_timeout(bench, platform, events) ==
    IF bench = "store"
    THEN [report |-> IF platform.complete[1] = "ok" THEN Report("timeout", events, TRUE)
                     ELSE RunnerRaised("CompletionError"),
          completions |-> 1]
    ELSE complete_and_format_result(platform, events, [status |-> "timeout"])

InitRunner ==
    /\ mode = "runner"
    /\ run_bench \in {"store", "erc3"}
    /\ run_platform \in Platforms
    /\ run_pc = "loop"
    /\ run_loop = NoLoopEnd
    /\ run_trace = <<>>
    /\ run_completions = 0
    /\ run_report = NoReport
    /\ IdleLoop /\ IdleNode /\ IdlePlan /\ IdleBatch /\ IdleCall /\ IdleDwt /\ IdleGw /\ IdlePg /\ IdleDel /\ IdlePar /\ IdleTv

\* run_agent_loop at work: it appends events to the runner's trace list.
LoopAppends ==
    /\ mode = "runner" /\ run_pc = "loop"
    /\ Len(run_trace) < MaxTrace
    /\ \E event \in {"agent_step", "validator_step"} :
          run_trace' = Append(run_trace, [event |-> event, seq |-> Len(run_trace) + 1])
    /\ UNCHANGED <<mode, run_bench, run_platform, run_pc, run_loop, run_completions, run_report, loopVars, nodeVars, planVars, batchVars, callVars, dwtVars, gwVars, pgVars, delVars, parVars, tvVars>>

\* run_agent_loop returns its result dict.
LoopReturns ==
    /\ mode = "runner" /\ run_pc = "loop"
    /\ \E status \in {"completed", "refused"} :
          run_loop' = [kind |-> "return", status |-> status]
    /\ run_pc' = "after loop"
    /\ UNCHANGED <<mode, run_bench, run_platform, run_trace, run_completions, run_report, loopVars, nodeVars, planVars, batchVars, callVars, dwtVars, gwVars, pgVars, delVars, parVars, tvVars>>

\* run_agent_loop raises: the step limit (store_agent_loop.py line 778,
\* erc3/runtime/loop.py line 371), the gateway's exception after its last
\* attempt (infrastructure.py line 331), or an exception of a tool
\* (execute_get_all_products).
LoopRaises ==
    /\ mode = "runner" /\ run_pc = "loop"
    /\ \E kind \in {"AgentStepLimitError", "LLMError", "ApiException"} :
          run_loop' = [kind |-> kind, status |-> ""]
    /\ run_pc' = "after loop"
    /\ UNCHANGED <<mode, run_bench, run_platform, run_trace, run_completions, run_report, loopVars, nodeVars, planVars, batchVars, callVars, dwtVars, gwVars, pgVars, delVars, parVars, tvVars>>

\* The loop returned: store lines 146-154, erc3 line 255.
RunnerCompletes ==
    /\ mode = "runner" /\ run_pc = "after loop"
    /\ run_loop.kind = "return"
    /\ LET outcome == IF run_loop.status = "completed" THEN "success" ELSE "failure"
           handled == IF run_bench = "store"
                      THEN handle_task_completion(run_platform, run_trace, outcome)
                      ELSE complete_and_format_result(run_platform, run_trace,
                                                      [status |-> run_loop.status])
       IN  /\ run_report' = handled.report
           /\ run_completions' = handled.completions
    /\ run_pc' = "finished"
    /\ UNCHANGED <<mode, run_bench, run_platform, run_loop, run_trace, loopVars, nodeVars, planVars, batchVars, callVars, dwtVars, gwVars, pgVars, delVars, parVars, tvVars>>

\* Variant that lets a failing fallback dispatch out of _handle_timeout.
send_fallback_uncaught(platform) ==
    [dispatched |-> <<[request |-> "Req_ProvideAgentResponse", outcome |-> "error_internal"]>>,
     raised     |-> IF platform.fallback = "error" THEN "ApiException" ELSE ""]

\* _handle_timeout lines 157-166: the fallback response, inside try / except
\* Exception: pass.
send_fallback(platform) ==
    [dispatched |-> <<[request |-> "Req_ProvideAgentResponse", outcome |-> "error_internal"]>>,
     raised     |-> ""]

\* except AgentStepLimitError in run_erc3_benchmark (lines 252-253): the
\* first half of _handle_timeout.
RunnerSendsFallback ==
    /\ mode = "runner" /\ run_pc = "after loop"
    /\ run_bench = "erc3"
    /\ run_loop.kind = "AgentStepLimitError"
    /\ LET sent == send_fallback(run_platform)
       IN  /\ dispatched' = dispatched \o sent.dispatched
           /\ IF sent.raised # ""
              THEN /\ run_report' = RunnerRaised(sent.raised)
                   /\ run_pc' = "finished"
              ELSE /\ run_pc' = "fallback sent"
                   /\ UNCHANGED run_report
    /\ UNCHANGED <<mode, run_bench, run_platform, run_loop, run_trace, run_completions, batch_fns, batch_out, loopVars, nodeVars, planVars, callVars, dwtVars, gwVars, pgVars, delVars, parVars, tvVars>>

\* except AgentStepLimitError: store lines 156-179; erc3 lines 168-175, the
\* second half of _handle_timeout.
RunnerTimesOut ==
    /\ mode = "runner"
    /\ run_pc = IF run_bench = "erc3" THEN "fallback sent" ELSE "after loop"
    /\ run_loop.kind = "AgentStepLimitError"
    /\ LET handled == handle_timeout(run_bench, run_platform, run_trace)
       IN  /\ run_report' = handled.report
           /\ run_completions' = handled.completions
    /\ run_pc' = "finished"
    /\ UNCHANGED <<mode, run_bench, run_platform, run_loop, run_trace, loopVars, nodeVars, planVars, batchVars, callVars, dwtVars, gwVars, pgVars, delVars, parVars, tvVars>>

\* Any other exception: neither runner has a handler for it.
RunnerPropagates ==
    /\ mode = "runner" /\ run_pc = "after loop"
    /\ run_loop.kind \notin {"return", "AgentStepLimitError"}
    /\ run_report' = RunnerRaised(run_loop.kind)
    /\ run_pc' = "finished"
    /\ UNCHANGED <<mode, run_bench, run_platform, run_loop, run_trace, run_completions, loopVars, nodeVars, planVars, batchVars, callVars, dwtVars, gwVars, pgVars, delVars, parVars, tvVars>>

NextRunner ==
    \/ LoopAppends \/ LoopReturns \/ LoopRaises \/ RunnerCompletes \/ RunnerSendsFallback
    \/ RunnerTimesOut \/ RunnerPropagates

SpecRunner == InitRunner /\ [][NextRunner]_vars

(* A whole store task: run_store_benchmark around the orchestrator's loop *)

\* run_store_benchmark lines 111-144: the runner creates the trace list and
\* the orchestrator log and calls run_agent_loop.
InitTask ==
    /\ mode = "store"
    /\ registry = StoreRegistry
    /\ stack = <<Frame(AGENT_REGISTRY("Orchestrator"), TaskText, RootId,
                       <<Msg("system", SystemPrompt), Msg("user", TaskText)>>)>>
    /\ trace = <<>>
    /\ result = NoResult
    /\ rejections = 0
    /\ run_bench = "store"
    /\ run_platform = <<>>
    /\ run_pc = "loop"
    /\ run_loop = NoLoopEnd
    /\ run_trace = <<>>
    /\ run_completions = 0
    /\ run_report = NoReport
    /\ IdleNode /\ IdlePlan /\ IdleBatch /\ IdleCall /\ IdleDwt /\ IdleGw /\ IdlePg /\ IdleDel /\ IdlePar /\ IdleTv

\* run_store_benchmark lines 146-179: run_agent_loop has returned or raised;
\* answer is what erc_client.complete_task runs into, which is called on a
\* return and on the step-limit error only.
run_store_benchmark ==
    /\ mode = "store" /\ run_pc = "loop"
    /\ result.kind # "none"
    /\ \E answer \in IF result.kind \in {"return", "AgentStepLimitError"}
                     THEN {"ok", "error"} ELSE {"not called"} :
       LET platform == [complete |-> [k \in 1 .. max_retries |-> answer], fallback |-> "ok"]
           outcome  == IF result.status = "completed" THEN "success" ELSE "failure"
           handled  == CASE result.kind = "return" ->
                               handle_task_completion(platform, trace, outcome)
                          [] result.kind = "AgentStepLimitError" ->
                               handle_timeout("store", platform, trace)
                          [] OTHER ->
                               [report |-> RunnerRaised(result.kind), completions |-> 0]
       IN  /\ run_platform' = platform
           /\ run_report' = handled.report
           /\ run_completions' = handled.completions
    /\ run_loop' = [kind |-> result.kind, status |-> result.status]
    /\ run_trace' = trace
    /\ run_pc' = "finished"
    /\ UNCHANGED <<mode, run_bench, loopVars, nodeVars, planVars, batchVars, callVars, dwtVars, gwVars, pgVars, delVars, parVars, tvVars>>

NextTask ==
    \/ StoreDecide
    \/ DecideFails
    \/ StoreValidate
    \/ StoreExecUnknown
    \/ StoreExecTerminal
    \/ StoreExecMeta
    \/ StoreExecExplorer
    \/ StoreAfterMeta
    \/ StoreExecSdk
    \/ StepLimit
    \/ run_store_benchmark

SpecTask == InitTask /\ [][NextTask]_vars

(* The loop with terminal validation (agent_execution.py) *)

\* run_bullshit_caller lines 120-248: verdict is the validator LLM's is_valid
\* ("valid" / "invalid") or "error" when the call or the parse raises.
run_bullshit_caller(verdict) ==
    IF verdict = "error"
    THEN [is_valid |-> TRUE, rejection_message |-> "", analysis |-> "Validation error"]
    ELSE [is_valid |-> verdict = "valid",
          rejection_message |-> IF verdict = "valid" THEN "" ELSE "rejected",
          analysis |-> "analysis"]

\* Variant whose limit is reached one validation later.
handle_terminal_one_more(validation, validation_count, max_validations) ==
    LET is_limit_reached == validation_count >= max_validations
    IN  IF ~validation.is_valid /\ ~is_limit_reached
        THEN [should_terminate |-> FALSE, is_valid |-> FALSE,
              rejection_message |-> validation.rejection_message,
              analysis |-> validation.analysis, limit_reached |-> FALSE]
        ELSE [should_terminate |-> TRUE,
              is_valid |-> validation.is_valid \/ is_limit_reached,
              rejection_message |-> IF validation.is_valid THEN ""
                                    ELSE validation.rejection_message,
              analysis |-> validation.analysis,
              limit_reached |-> is_limit_reached /\ ~validation.is_valid]

\* handle_terminal_with_validation lines 351-410, after run_bullshit_caller.
handle_terminal_with_validation(validation, validation_count, max_validations) ==
    LET is_limit_reached == validation_count >= max_validations - 1
    IN  IF ~validation.is_valid /\ ~is_limit_reached
        THEN [should_terminate |-> FALSE, is_valid |-> FALSE,
              rejection_message |-> validation.rejection_message,
              analysis |-> validation.analysis, limit_reached |-> FALSE]
        ELSE [should_terminate |-> TRUE,
              is_valid |-> validation.is_valid \/ is_limit_reached,
              rejection_message |-> IF validation.is_valid THEN ""
                                    ELSE validation.rejection_message,
              analysis |-> validation.analysis,
              limit_reached |-> is_limit_reached /\ ~validation.is_valid]

NoTerminal == [done |-> FALSE, raised |-> "", status |-> "", report |-> <<>>]

\* Lines 450-481: max_validations and max_steps come from the agent's config.
InitTerminal ==
    /\ mode = "terminal"
    /\ tv_loop \in {[max_steps |-> n, max_validations |-> m, i |-> 0, step_count |-> 0,
                      validation_count |-> 0, attempts |-> <<>>] :
                        n \in 1 .. MaxValidations + 1, m \in 1 .. MaxValidations}
    /\ tv_out = NoTerminal
    /\ IdleLoop /\ IdleNode /\ IdlePlan /\ IdleBatch
    /\ IdleCall /\ IdleDwt /\ IdleGw /\ IdleRun /\ IdlePg /\ IdleDel /\ IdlePar

\* Lines 502-568: the decision is CompleteTask or RefuseTask.
TerminalAttempt ==
    /\ mode = "terminal" /\ ~tv_out.done
    /\ InRange(tv_loop.i, tv_loop.max_steps)
    /\ \E action \in {"complete_task", "refuse_task"}, verdict \in {"valid", "invalid", "error"} :
       LET validation == run_bullshit_caller(verdict)
           validation_result ==
               handle_terminal_with_validation(validation, tv_loop.validation_count,
                                               tv_loop.max_validations)
           attempt == [action |-> action, verdict |-> verdict,
                       continued |-> ~validation_result.should_terminate]
           status == IF action = "complete_task" THEN "completed" ELSE "refused"
           report == <<"report">> \o
                     (IF validation_result.limit_reached
                      THEN <<"Validator note after checks:", validation_result.analysis>>
                      ELSE <<>>)
       IN  IF validation_result.should_terminate
           THEN /\ tv_out' = [done |-> TRUE, raised |-> "", status |-> status,
                              report |-> report]
                /\ tv_loop' = [tv_loop EXCEPT !.step_count = @ + 1,
                                              !.attempts = Append(@, attempt)]
           ELSE /\ tv_loop' = [tv_loop EXCEPT !.i = @ + 1, !.step_count = @ + 1,
                                              !.validation_count = @ + 1,
                                              !.attempts = Append(@, attempt)]
                /\ UNCHANGED tv_out
    /\ UNCHANGED <<mode, loopVars, nodeVars, planVars, batchVars, callVars, dwtVars, gwVars, runVars, pgVars, delVars, parVars>>

\* Lines 570-676: any other decision (a delegation or a tool call); the
\* iteration leaves validation_count alone.
OtherStep ==
    /\ mode = "terminal" /\ ~tv_out.done
    /\ InRange(tv_loop.i, tv_loop.max_steps)
    /\ tv_loop' = [tv_loop EXCEPT !.i = @ + 1, !.step_count = @ + 1]
    /\ UNCHANGED <<mode, tv_out, loopVars, nodeVars, planVars, batchVars, callVars, dwtVars, gwVars, runVars, pgVars, delVars, parVars>>

\* Line 679.
TerminalStepLimit ==
    /\ mode = "terminal" /\ ~tv_out.done
    /\ ~InRange(tv_loop.i, tv_loop.max_steps)
    /\ tv_out' = [done |-> TRUE, raised |-> "AgentStepLimitError", status |-> "",
                  report |-> <<>>]
    /\ UNCHANGED <<mode, tv_loop, loopVars, nodeVars, planVars, batchVars, callVars, dwtVars, gwVars, runVars, pgVars, delVars, parVars>>

NextTerminal == TerminalAttempt \/ OtherStep \/ TerminalStepLimit

SpecTerminal == InitTerminal /\ [][NextTerminal]_vars

(* Pagination helpers of the ERC3 tools (benchmarks/erc3/tools.py lines 225-342) *)

\* The endpoint holds items 1 .. total, serves them from the offset asked
\* for, and names the next offset, or its end marker (absent, 0 or negative)
\* after the last item.  A request whose number is in `failing` ends with an
\* exception out of dispatch_with_retry.
NoOffset == -2

Servers ==
    [total : 0 .. MaxItems, end_marker : {NoOffset, 0, -1}, failing : SUBSET (1 .. MaxFetches)]

Range(from, to) == [k \in 1 .. (IF to >= from THEN to - from + 1 ELSE 0) |-> from + k - 1]

Min(a, b) == IF a <= b THEN a ELSE b

\* The page the endpoint answers with.
Page(server, offset, limit) ==
    [items       |-> Range(offset + 1, Min(offset + limit, server.total)),
     next_offset |-> IF offset + limit < server.total THEN offset + limit
                     ELSE server.end_marker]

\* Variant without the try: the exception leaves _fetch_page.
fetch_page_uncaught(server, fetch, offset, limit) ==
    IF fetch \in server.failing
    THEN [raised |-> "Exception", items |-> <<>>, next_offset |-> NoOffset, error |-> ""]
    ELSE [raised |-> "", items |-> Page(server, offset, limit).items,
          next_offset |-> Page(server, offset, limit).next_offset, error |-> ""]

\* _fetch_page: the fetch-th page request of the call; except Exception turns
\* a failure into the error field.
fetch_page(server, fetch, offset, limit) ==
    IF fetch \in server.failing
    THEN [raised |-> "", items |-> <<>>, next_offset |-> NoOffset, error |-> "dispatch failed"]
    ELSE [raised |-> "", items |-> Page(server, offset, limit).items,
          next_offset |-> Page(server, offset, limit).next_offset, error |-> ""]

Paged(raised, items, errors, pages_fetched, sent) ==
    [done |-> TRUE, raised |-> raised, items |-> items, complete |-> errors = <<>>,
     errors |-> errors, pages_fetched |-> pages_fetched, fetches |-> Len(sent),
     sent |-> sent]

\* Variant that goes on with the default limit after a fallback worked.
RECURSIVE FirstPageKeepsDefault(_, _, _, _)
FirstPageKeepsDefault(server, fetch, limits, sent) ==
    LET page == fetch_page(server, fetch, 0, Head(limits))
        asked == Append(sent, [offset |-> 0, limit |-> Head(limits)])
    IN  IF page.raised # "" \/ page.error = "" \/ Len(limits) = 1
        THEN [page |-> page, limit |-> DEFAULT_LIMIT, sent |-> asked]
        ELSE FirstPageKeepsDefault(server, fetch + 1, Tail(limits), asked)

\* Lines 297-311: the default limit, then the fallback limits until one works.
\* sent: the page requests made so far, as (offset, limit).
RECURSIVE FirstPage(_, _, _, _)
FirstPage(server, fetch, limits, sent) ==
    LET page == fetch_page(server, fetch, 0, Head(limits))
        asked == Append(sent, [offset |-> 0, limit |-> Head(limits)])
    IN  IF page.raised # "" \/ page.error = "" \/ Len(limits) = 1
        THEN [page |-> page, limit |-> Head(limits), sent |-> asked]
        ELSE FirstPage(server, fetch + 1, Tail(limits), asked)

\* Lines 319-328: while next_offset is not None and next_offset > 0.
RECURSIVE RemainingPages(_, _, _, _, _, _)
RemainingPages(server, sent, next_offset, limit, all_items, pages_fetched) ==
    IF ~(next_offset # NoOffset /\ next_offset > 0)
    THEN Paged("", all_items, <<>>, pages_fetched, sent)
    ELSE LET page  == fetch_page(server, Len(sent) + 1, next_offset, limit)
             asked == Append(sent, [offset |-> next_offset, limit |-> limit])
         IN  IF page.raised # ""
             THEN Paged(page.raised, <<>>, <<>>, 0, asked)
             ELSE IF page.error # ""
             THEN Paged("", all_items, <<<<"Page at offset", next_offset, page.error>>>>,
                        pages_fetched, asked)
             ELSE RemainingPages(server, asked, page.next_offset, limit,
                                 all_items \o page.items, pages_fetched + 1)

\* _paginate
paginate(server) ==
    LET first == FirstPage(server, 1, <<DEFAULT_LIMIT>> \o FALLBACK_LIMITS, <<>>)
    IN  IF first.page.raised # ""
        THEN Paged(first.page.raised, <<>>, <<>>, 0, first.sent)
        ELSE IF first.page.error # ""
        THEN Paged("", <<>>, <<<<"Unable to access data.">>>>, 0, first.sent)
        ELSE RemainingPages(server, first.sent, first.page.next_offset, first.limit,
                            first.page.items, 1)

InitPaginate ==
    /\ mode = "paginate"
    /\ pg_server \in Servers
    /\ pg_out = NoPages
    /\ IdleLoop /\ IdleNode /\ IdlePlan /\ IdleBatch /\ IdleCall /\ IdleDwt /\ IdleGw /\ IdleRun /\ IdleDel /\ IdlePar /\ IdleTv

PaginateCall ==
    /\ mode = "paginate" /\ ~pg_out.done
    /\ pg_out' = paginate(pg_server)
    /\ UNCHANGED <<mode, pg_server, loopVars, nodeVars, planVars, batchVars, callVars, dwtVars, gwVars, runVars, delVars, parVars, tvVars>>

NextPaginate == PaginateCall

SpecPaginate == InitPaginate /\ [][NextPaginate]_vars

----------------------------------------------------------------------------
(* Properties of the agent loops *)

Frames == {stack[k] : k \in DOMAIN stack}

\* C1: a loop with max_steps = N that never executes a terminal action raises
\* AgentStepLimitError after exactly N iterations and N top-of-loop decisions,
\* whatever the validator rejected in between; no loop ever runs more.
StepLimitAfterExactlyMaxSteps ==
    /\ \A f \in Frames : f.i <= f.max_steps /\ f.decides <= f.max_steps
    /\ result.kind = "AgentStepLimitError"
          => /\ result.iterations = result.max_steps
             /\ result.decides = result.max_steps

StepLimitAfterRejections ==
    /\ result.kind = "AgentStepLimitError"
    /\ result.max_steps > 1
    /\ \E q \in DOMAIN trace :
          trace[q].event = "validator_step" /\ ~trace[q].validation_passed

\* C2: a loop returns only from an iteration whose executed action is
\* terminal, an iteration that executes a terminal action always returns, and
\* the status is "completed" exactly for the success-like outcomes.
SuccessLike(outcome) ==
    IF mode = "store" THEN outcome = "success"
    ELSE outcome \in {"ok_answer", "ok_not_found"}

ReturnsExactlyOnTerminal ==
    /\ result.kind = "return"
          => /\ result.executed.kind \in TERMINAL_ACTIONS
             /\ (result.status = "completed") = SuccessLike(result.executed.outcome)
             /\ result.status \in {"completed", "refused"}
    /\ \A f \in Frames :
          /\ f.executed.kind \notin TERMINAL_ACTIONS
          /\ (f.pc = "after_meta" /\ f.subret.subagent_name # "ProductExplorer")
                => /\ f.subret.executed.kind \in TERMINAL_ACTIONS
                   /\ (f.subret.status = "completed")
                         = SuccessLike(f.subret.executed.outcome)

ReturnedNotFound ==
    /\ mode = "erc3"
    /\ result.kind = "return"
    /\ result.executed.outcome = "ok_not_found"
    /\ result.iterations > 0

\* C3: when the bound validator rejects every proposal of a step (and no
\* re-proposal leaves its triggers), the step makes max_attempts + 1 validator
\* calls with one validator_step event each, max_attempts re-proposal calls,
\* and the loop goes on to execute the last proposal.
StepNodeIds(f) ==
    {next_node_id(f.parent_node_id, sc) :
        sc \in (f.cur_step_count - f.vcalls) .. (f.cur_step_count - 1)}

ValidatorEventsOfStep(f) ==
    {q \in DOMAIN trace : /\ trace[q].event = "validator_step"
                          /\ trace[q].validates_node_id \in StepNodeIds(f)}

AllRejected(f) == f.pc = "execute" /\ f.all_rejected /\ ~f.switched

ForceApprovalAfterMaxAttempts ==
    \A f \in Frames :
       AllRejected(f)
          => /\ f.vcalls = registry[f.vidx].max_attempts + 1
             /\ f.reprops = registry[f.vidx].max_attempts
             /\ Cardinality(ValidatorEventsOfStep(f)) = f.vcalls
             /\ Len(f.proposed) = f.reprops + 1
             /\ f.llm_result = Last(f.proposed)

ForceApproved ==
    \E f \in Frames : AllRejected(f) /\ f.i > 0

\* C4: when the validator's LLM call raises, run_step_validator returns
\* is_valid = TRUE with an empty rejection message and appends exactly one
\* validator_step event (validation_passed, output holding the error); the
\* loop carries on with the proposal as if it had been approved.
ValidatorCallRaises ==
    /\ Running /\ Top.pc = "validate"
    /\ stack' # <<>> /\ Len(stack') = Len(stack)
    /\ Top'.vcalls = Top.vcalls + 1
    /\ Top'.validation.verdict = "raise"

ValidatorFailsOpen ==
    [][ValidatorCallRaises
          => /\ Top'.validation.is_valid
             /\ Top'.validation.rejection_message = ""
             /\ Len(trace') = Len(trace) + 1
             /\ SubSeq(trace', 1, Len(trace)) = trace
             /\ Last(trace').event = "validator_step"
             /\ Last(trace').validation_passed
             /\ Last(trace').output.type = "error"
             /\ Last(trace').validates_node_id = Top'.node_id
             /\ result' = NoResult
             /\ Top'.pc = "execute"
             /\ Top'.llm_result = Top.cur]_vars

ProceededAfterValidatorError ==
    \E f \in Frames :
       /\ f.validation.verdict = "raise"
       /\ f.pc = "execute"
       /\ f.vcalls > 1

\* C5: a step whose k-th proposal is the first approved one leaves k
\* agent_step and k validator_step events, and each agent_step stands
\* immediately before the validator_step that validates its node id.
StepApprovedAndDone(f) ==
    /\ f.pc = "decide" /\ f.executed # NoProposal
    /\ f.executed = f.llm_result
    /\ f.validation.verdict = "approve" /\ ~f.switched

AgentEventsOfStep(f) ==
    {q \in DOMAIN trace : /\ trace[q].event = "agent_step"
                          /\ trace[q].context = f.agent
                          /\ trace[q].node_id \in StepNodeIds([f EXCEPT
                                                   !.cur_step_count = f.step_count])}

AgentStepPrecedesItsValidator ==
    \A f \in Frames :
       StepApprovedAndDone(f)
          => LET g == [f EXCEPT !.cur_step_count = f.step_count]
             IN  /\ Cardinality(AgentEventsOfStep(f)) = f.vcalls
                 /\ Cardinality(ValidatorEventsOfStep(g)) = f.vcalls
                 /\ \A id \in StepNodeIds(g) :
                       \E q \in 1 .. Len(trace) - 1 :
                          /\ trace[q].event = "agent_step"
                          /\ trace[q].node_id = id
                          /\ trace[q + 1].event = "validator_step"
                          /\ trace[q + 1].validates_node_id = id

\* C6: no two events of one task's trace carry the same node id.
NodeIdsUnique ==
    \A q, r \in DOMAIN trace :
       q # r => trace[q].node_id # trace[r].node_id

----------------------------------------------------------------------------
(* Properties of the pure helpers *)

\* C8: for a parent P other than the sentinel "0" and any index i >= 0 the
\* id next_node_id(P, i) lies one level below P; the sentinel has depth -1
\* and its children depth 0.
ChildIsOneLevelDeeper ==
    /\ calculate_depth(RootId) = -1
    /\ nid_out # NoneId
          => /\ nid_parent = RootId => calculate_depth(nid_out) = 0
             /\ nid_parent \notin {NoneId, RootId}
                   => calculate_depth(nid_out) = calculate_depth(nid_parent) + 1

ChildOfNestedParent ==
    /\ mode = "node"
    /\ nid_out # NoneId
    /\ calculate_depth(nid_parent) >= 1
    /\ nid_index > 0

\* C9: after any sequence of inject_plan calls the conversation holds at most
\* one remaining-work message, and when the last call had a non-empty list
\* that message is the last one and renders exactly that list.
PlanMessages ==
    {k \in DOMAIN plan_conv : startswith(plan_conv[k].content, PlanHead)}

AtMostOnePlanMessage ==
    plan_calls > 0
       => /\ Cardinality(PlanMessages) <= 1
          /\ plan_last # <<>>
                => /\ PlanMessages = {Len(plan_conv)}
                   /\ plan_conv[Len(plan_conv)]
                         = Msg("user", <<PlanHead>> \o
                              [k \in 1 .. 2 * Len(plan_last) |->
                                  IF k % 2 = 1 THEN ToString((k + 1) \div 2)
                                  ELSE plan_last[k \div 2]])
          /\ plan_last = <<>> => PlanMessages = {}

PlanReplacedTwice ==
    /\ mode = "plan"
    /\ plan_calls >= 2
    /\ Len(plan_last) = 2
    /\ Len(plan_conv) >= 3

\* C10: execute_batch dispatches the actions in the given order; when action
\* k is the first to fail, actions k+1..n are never dispatched and tool_calls
\* is the k-1 success records followed by the one failure record.
Failing == {k \in DOMAIN batch_fns : batch_fns[k].outcome # "ok"}

FirstFailing ==
    IF Failing = {} THEN Len(batch_fns)
    ELSE CHOOSE k \in Failing : \A j \in Failing : k <= j

Requested == SelectSeq(dispatched, LAMBDA name : name # ViewBasket)

BatchStopsAtFirstFailure ==
    dispatched # <<>>
       => /\ Requested = [k \in 1 .. FirstFailing |-> batch_fns[k].name]
          /\ Len(batch_out.tool_calls) = FirstFailing
          /\ \A k \in 1 .. FirstFailing :
                /\ batch_out.tool_calls[k].request = batch_fns[k].name
                /\ batch_out.tool_calls[k].error = (k \in Failing)

BatchAbortedInTheMiddle ==
    /\ mode = "batch"
    /\ dispatched # <<>>
    /\ Len(batch_fns) >= 3
    /\ FirstFailing = 2 /\ Failing # {}
    /\ batch_fns[1].state_changing

\* C11: when a request of a batch fails and requests remain after it, the
\* returned text ends with the abort notice, placed right after the renderings
\* of the requests executed so far; when the failing request is the last one
\* the text carries no notice.
IsNotice(part) == part # <<>> /\ part[1] = AbortNotice(0, 0)[1]

Rendered(k, part) ==
    /\ Len(part) >= 4
    /\ SubSeq(part, 1, 4) = <<"Request:", batch_fns[k].name,
                              "Response:", batch_fns[k].outcome>>

AbortNoticeAfterExecuted ==
    (dispatched # <<>> /\ Failing # {})
       => /\ \A k \in 1 .. FirstFailing : Rendered(k, batch_out.text[k])
          /\ IF FirstFailing < Len(batch_fns)
             THEN /\ Len(batch_out.text) = FirstFailing + 1
                  /\ batch_out.text[FirstFailing + 1]
                        = <<"The rest of requests are aborted due to the error.",
                            ToString(FirstFailing), ToString(Len(batch_fns))>>
             ELSE /\ Len(batch_out.text) = FirstFailing
                  /\ \A k \in DOMAIN batch_out.text : ~IsNotice(batch_out.text[k])

NoticeAfterThreeOfFour ==
    /\ mode = "batch"
    /\ dispatched # <<>>
    /\ Len(batch_fns) = 4
    /\ Failing # {} /\ FirstFailing = 3
    /\ batch_fns[3].outcome = "timeout"

\* C11 as stated: a notice follows the first failure whatever its position.
AbortNoticeAtEveryPosition ==
    (dispatched # <<>> /\ Failing # {})
       => \E k \in DOMAIN batch_out.text :
             /\ k > FirstFailing
             /\ IsNotice(batch_out.text[k])

\* C12: a single tool call never raises on a failing backend answer: whatever
\* tool is routed (standard dispatch, get_all_products, set_basket,
\* test_coupons), the call hands back its {text, tool_call} value.
SingleCallNeverRaises == call_out.done => call_out.raised = ""

\* C13: a dispatch that never completes cannot hold the caller of
\* dispatch_with_timeout: once the deadline has passed the caller is never
\* left waiting for the worker thread of such a dispatch.
StuckDispatchCannotBlockCaller ==
    (dwt_backend.latency = Never /\ dwt_clock >= TimeoutTicks)
       => dwt_caller \in Finished \cup {"entered", "waiting for result"}

\* C14: one get_next_step call issues at most 4 LLM requests; it returns at
\* the first attempt whose result is parsed, having issued no request beyond
\* that one, and when four attempts in a row fail it raises the exception of
\* the fourth.
Succeeds(k) == TryBody(gw_script[k], gw_task_ctx) = ""

GatewayBoundedRetry ==
    /\ gw_requests <= 4
    /\ gw_out.done =>
          IF \E k \in 1 .. 4 : Succeeds(k)
          THEN LET first == CHOOSE k \in 1 .. 4 : Succeeds(k) /\ \A j \in 1 .. k - 1 : ~Succeeds(j)
               IN  /\ gw_out.raised = ""
                   /\ gw_out.attempt + 1 = first
                   /\ gw_requests = first
          ELSE /\ gw_out.raised = TryBody(gw_script[4], gw_task_ctx)
               /\ gw_out.raised # ""
               /\ gw_out.attempt + 1 = 4
               /\ gw_requests = 4

ReturnedOnThirdAttempt ==
    /\ mode = "gateway" /\ gw_out.done
    /\ gw_out.raised = "" /\ gw_out.attempt = 2 /\ gw_requests = 3

RaisedAfterFourthFailure ==
    /\ mode = "gateway" /\ gw_out.done
    /\ gw_out.raised = "ValidationError" /\ gw_requests = 4
    /\ gw_script[3].request = "APIError"

\* C15: task_ctx.log_llm raising does not change what get_next_step does: the
\* response of the first attempt whose request and parse are fine is returned
\* and no request is issued after it.
Obtained(k) == gw_script[k].request = "ok" /\ gw_script[k].parse = "ok"

LogFailureChangesNothing ==
    (gw_out.done /\ \E k \in 1 .. 4 : Obtained(k))
       => LET first == CHOOSE k \in 1 .. 4 : Obtained(k) /\ \A j \in 1 .. k - 1 : ~Obtained(j)
          IN  /\ gw_out.raised = ""
              /\ gw_out.attempt + 1 = first
              /\ gw_requests = first

\* C16: once the agent loop has ended, by returning or by raising the
\* step-limit error, the runner has called complete_task at least once by
\* the time it finishes.
CompletionAlwaysAttempted ==
    (run_pc = "finished" /\ run_loop.kind \in {"return", "AgentStepLimitError"})
       => run_completions >= 1

CompletionAttemptedAfterStepLimit ==
    /\ mode = "runner" /\ run_pc = "finished"
    /\ run_loop.kind = "AgentStepLimitError"
    /\ run_bench = "erc3" /\ run_completions = 3 /\ ~run_report.scored

\* C17: every task execution hands back one report whose code is completed,
\* refused or timeout, however the agent loop ended.
ReportCodes == {"completed", "refused", "timeout"}

EveryRunEndsWithAReport ==
    run_pc = "finished" => /\ run_report.done /\ run_report.raised = ""
                           /\ run_report.code \in ReportCodes

\* C18: when the agent loop raised the step-limit error, the report the
\* runner hands back has code timeout and carries the events appended before
\* the error, in their order.
TimeoutReportKeepsTrace ==
    (run_pc = "finished" /\ run_loop.kind = "AgentStepLimitError" /\ run_report.raised = "")
       => /\ run_report.code = "timeout"
          /\ run_report.trace = run_trace
          /\ \A k \in DOMAIN run_report.trace : run_report.trace[k].seq = k

TimeoutReportWithEvents ==
    /\ mode = "runner" /\ run_pc = "finished"
    /\ run_loop.kind = "AgentStepLimitError"
    /\ run_report.raised = "" /\ run_report.code = "timeout"
    /\ Len(run_report.trace) >= 2

\* C19: execute_set_basket stops at the first failing sub-step: after it no
\* mutating request goes to the backend, and the result carries the error
\* together with exactly the removals and additions that took effect.
Answer(k) == IF k <= Len(call_backend.script) THEN call_backend.script[k] ELSE "ok"

Sent == call_out.b.sent

\* Failing sub-steps; the closing view of the result formatter comes last and
\* is not one of them.
FailedSubSteps == {k \in 1 .. Len(Sent) - 1 : Answer(k) = "api_error"}

Mutating == {"remove_item", "remove_coupon", "add", "apply"}

TookEffect(op) ==
    LET ks == {k \in DOMAIN Sent : Sent[k].op = op /\ Answer(k) # "api_error"}
    IN  [k \in DOMAIN Sent |-> IF k \in ks THEN <<Sent[k].arg>> ELSE <<>>]

RECURSIVE Flatten(_, _)
Flatten(parts, k) == IF k > Len(parts) THEN <<>> ELSE parts[k] \o Flatten(parts, k + 1)

SetBasketFailsFast ==
    (call_out.done /\ call_fn.tool = "set_basket" /\ FailedSubSteps # {})
       => LET first == CHOOSE k \in FailedSubSteps : \A j \in FailedSubSteps : k <= j
          IN  /\ \A k \in first + 1 .. Len(Sent) : Sent[k].op \notin Mutating
              /\ call_out.response.error
              /\ call_out.response.cleared_products = Flatten(TookEffect("remove_item"), 1)
              /\ call_out.response.added_products = Flatten(TookEffect("add"), 1)

\* C20: _paginate never raises.  It fetches page after page while the next
\* offset is positive; a page request that fails after the first page ends
\* the call with complete = False, an error message and the items of the
\* pages fetched so far; complete = True comes back only when every page up
\* to the end marker was fetched.
Ladder == {k \in 1 .. 5 : k \notin pg_server.failing}

FirstWorking == CHOOSE k \in Ladder : \A j \in Ladder : k <= j

WorkingLimit == 6 - FirstWorking

PagesNeeded ==
    IF pg_server.total = 0 THEN 1
    ELSE (pg_server.total + WorkingLimit - 1) \div WorkingLimit

\* Pages after the first whose request fails.
FailedPages == {p \in 2 .. PagesNeeded : FirstWorking + p - 1 \in pg_server.failing}

LadderSizes == <<5, 4, 3, 2, 1>>

FallbackLadder ==
    (pg_out.done /\ 1 \in pg_server.failing) =>
       IF Ladder = {}
       THEN /\ pg_out.sent = [k \in 1 .. 5 |-> [offset |-> 0, limit |-> LadderSizes[k]]]
            /\ pg_out.complete = FALSE
            /\ pg_out.items = <<>>
            /\ pg_out.pages_fetched = 0
       ELSE /\ \A k \in 1 .. FirstWorking :
                  pg_out.sent[k] = [offset |-> 0, limit |-> LadderSizes[k]]
            /\ \A k \in FirstWorking + 1 .. Len(pg_out.sent) :
                  /\ pg_out.sent[k].limit = LadderSizes[FirstWorking]
                  /\ pg_out.sent[k].offset = (k - FirstWorking) * LadderSizes[FirstWorking]

FallbackToThreeThenMorePages ==
    /\ mode = "paginate" /\ pg_out.done
    /\ {1, 2} \subseteq pg_server.failing /\ 3 \notin pg_server.failing
    /\ pg_out.complete /\ pg_out.pages_fetched = 2

AllFiveSizesFail ==
    /\ mode = "paginate" /\ pg_out.done
    /\ Ladder = {} /\ pg_server.total > 0

\* C22: among the registered validators whose tool trigger and agent filter
\* both match the proposal, the one registered first is run; when none
\* matches there is no validator call, no validator_step event, and the
\* proposal goes on with the next sibling index.
\* The function validators are matched on (None is "").
FunctionOf(p) == IF p.kind \in {"unknown", "none"} THEN "" ELSE p.kind

BothMatch(v, function, agent_name) ==
    /\ function # ""
    /\ "*" \in v.triggers \/ function \in v.triggers
    /\ "*" \in v.applies_to \/ agent_name \in v.applies_to

\* Positions of the validators that count for the benchmark: every
\* validator in ERC3, those named StepValidator in the store.
Candidates(named) ==
    {k \in 1 .. Len(registry) :
        /\ BothMatch(registry[k], FunctionOf(Top.proposed[1]), Top.agent)
        /\ named => registry[k].name = "StepValidator"}

FirstOf(ks) == CHOOSE k \in ks : \A j \in ks : k <= j

Matched(ks) ==
    (stack # <<>> /\ Top.proposed # <<>>) =>
       IF ks = {}
       THEN /\ Top.pc = "execute" /\ Top.vcalls = 0
            /\ trace = <<>>
            /\ Top.llm_result = Top.proposed[1]
            /\ Top.step_count = 1 /\ Top.indices = <<0>>
            /\ Top.node_id = next_node_id(Top.parent_node_id, 0)
       ELSE /\ Top.vcalls = 0 => Top.pc = "validate"
            /\ (mode = "store" \/ Top.vcalls = 0) => Top.vidx = FirstOf(ks)
            /\ Top.vcalls > 0 =>
                  LET first_call == trace[IF Len(trace) = 1 THEN 1 ELSE 2]
                  IN  /\ first_call.event = "validator_step"
                      /\ first_call.context = registry[FirstOf(ks)].name

NoValidatorMatches ==
    /\ stack # <<>> /\ Top.proposed # <<>> /\ registry # <<>>
    /\ FunctionOf(Top.proposed[1]) # ""
    /\ Candidates(mode = "store") = {}

\* C23: validate_and_retry_step never modifies the agent's conversation: the
\* rejected plan and the rejection message go into a scratch copy only, and
\* after the step the conversation holds neither.
IsFeedback(m) ==
    \/ \E k \in 1 .. Len(m.content) : m.content[k] = "Plan rejected by validator."
    \/ startswith(m.content, "Your plan was rejected:")

ValidationStep ==
    /\ stack # <<>> /\ Top.pc \in {"decide", "validate"}
    /\ stack' # <<>>

OutsideTriggers ==
    /\ stack # <<>> /\ Top.pc = "validate"
    /\ Erc3Function(Top.cur) \notin registry[Top.vidx].triggers

MatchingNow ==
    {k \in 1 .. Len(registry) : BothMatch(registry[k], FunctionOf(Top.cur), Top.agent)}

Restarted ==
    /\ Top'.pc = "validate"
    /\ Top'.vidx = FirstOf(MatchingNow)
    /\ Top'.depth = Top.depth + 1
    /\ Top'.attempt = 0

ReturnedUnvalidated(step_count) ==
    /\ Top'.pc = "execute"
    /\ Top'.llm_result = Top.cur
    /\ Top'.step_count = step_count

SwitchRestartsOrReturns ==
    OutsideTriggers =>
       /\ stack' # <<>> /\ Top'.cur = Top.cur
       /\ Top'.vcalls = Top.vcalls /\ trace' = trace
       /\ IF Top.depth >= 3 THEN ReturnedUnvalidated(Top.cur_step_count)
          ELSE IF MatchingNow = {} THEN ReturnedUnvalidated(Top.cur_step_count + 1)
          ELSE Restarted

BoundedValidation ==
    \A f \in Frames :
       /\ f.depth <= 3
       /\ f.pc = "validate" => f.attempt <= registry[f.vidx].max_attempts
       /\ f.vcalls <= (f.depth + 1) * (MaxAttempts + 1)

SubAgentEvents(X) ==
    SelectSeq(trace, LAMBDA e : e.event = "agent_step" /\ e.context = "BasketBuilder"
                                /\ e.parent_node_id = X)

Child(X, i) == X \o <<Dot, i>>

SubAgentUnderItsStep ==
    /\ \A k \in DOMAIN trace :
          (trace[k].event = "agent_step" /\ trace[k].context = "BasketBuilder")
             => LET X     == trace[k].parent_node_id
                    elder == {j \in 1 .. k : /\ trace[j].event = "agent_step"
                                             /\ trace[j].context = "BasketBuilder"
                                             /\ trace[j].parent_node_id = X}
                IN  /\ trace[k].node_id = Child(X, Cardinality(elder))
                    /\ \E j \in 1 .. k - 1 :
                          /\ trace[j].event = "validator_step"
                          /\ trace[j].validates_node_id = X
                          /\ trace[j].output.kind = "meta"
    /\ Len(stack) = 2 =>
          LET orchestrator == stack[1]
              sub          == stack[2]
              X            == orchestrator.node_id
          IN  /\ orchestrator.pc = "wait_sub" /\ orchestrator.llm_result.kind = "meta"
              /\ sub.agent = "BasketBuilder" /\ sub.parent_node_id = X
              /\ sub.indices = [i \in 1 .. Len(sub.indices) |-> i - 1]
              /\ sub.node_id # NoneId => sub.node_id = Child(X, Len(sub.indices))
              /\ \A i \in 1 .. Len(SubAgentEvents(X)) :
                    SubAgentEvents(X)[i].node_id = Child(X, i)

SubAgentLeavesOrchestratorLog ==
    (Len(stack) = 2 /\ stack' # <<>>) =>
        /\ stack'[1].full_log = stack[1].full_log
        /\ stack'[1].conversation = stack[1].conversation

DelegationTurns(f) ==
    <<Msg("assistant", <<"Planned step:", ToString(f.llm_result.pid), "Delegated to:",
                         f.subret.subagent_name, "Task:", ToString(f.llm_result.pid)>>),
      Msg("user", <<"Sub-agent:", f.subret.subagent_name, "Status:", f.subret.status,
                    "Report:", f.subret.report>>)>>

SameDelegation(a, b) ==
    /\ a.conversation = b.conversation /\ a.full_log = b.full_log
    /\ a.llm_result = b.llm_result
    /\ a.subret.subagent_name = b.subret.subagent_name
    /\ a.subret.status = b.subret.status
    /\ a.subret.report = b.subret.report

PlanMessageOf(work) ==
    Msg("user", <<PlanHead>> \o [k \in 1 .. 2 * Len(work) |->
                                   IF k % 2 = 1 THEN ToString((k + 1) \div 2)
                                   ELSE work[k \div 2]])

PlansIn(conversation) ==
    SelectSeq(conversation, LAMBDA m : startswith(m.content, PlanHead))

OnePlanOfTheExecutedDecision ==
    \A f \in Frames :
       f.executed # NoProposal =>
          /\ f.pc = "decide" => f.executed = Last(f.proposed)
          /\ f.executed.remaining_work # <<>>
                => PlansIn(f.conversation) = <<PlanMessageOf(f.executed.remaining_work)>>
          /\ f.executed.remaining_work = <<>> => PlansIn(f.conversation) = <<>>

PlanAfterRejectedProposalAndEarlierStep ==
    /\ stack # <<>> /\ Top.pc = "decide" /\ Top.i = 2
    /\ Top.reprops > 0
    /\ Top.proposed[1].remaining_work # Top.executed.remaining_work
    /\ Top.executed.remaining_work # <<>>

\* C28: the agent_step event logged for a terminal action has no tool-call
\* records attached.
TerminalStepHasNoToolCalls ==
    \A k \in DOMAIN trace :
       (trace[k].event = "agent_step" /\ is_terminal_action(trace[k].output.kind))
          => trace[k].tool_calls = <<>>

\* The store loop alone.
StoreTerminalStepHasNoToolCalls == mode = "store" => TerminalStepHasNoToolCalls

\* C29: parallel task runs share no mutable loop state: each run has its own
\* trace list, orchestrator log and backend client, and under every
\* interleaving each trace holds only its own run's events, in its order.
Started == {r \in DOMAIN par_runs : par_runs[r].pc # "submitted"}

ObjectsOf(r) ==
    {par_runs[r].trace, par_runs[r].orchestrator_log, par_runs[r].benchmark_client}

CallLess == {"unknown", "none", "badmode"}

RaisesAtOnce ==
    (stack # <<>> /\ Top.pc = "execute" /\ Top.llm_result.kind \in CallLess) =>
        /\ stack' = <<>>
        /\ result'.kind = "ValueError" /\ result'.agent = Top.agent
        /\ trace' = trace

\* As stated: the trace never holds an agent_step of such a decision.
NoEventForCallLessDecision ==
    \A k \in DOMAIN trace :
       trace[k].event = "agent_step" => trace[k].output.kind \notin CallLess

\* The only agent_step of such a decision is the store's record of a
\* proposal the validator rejected, which stands right before that verdict.
OnlyAsRejectedAttempt ==
    \A k \in DOMAIN trace :
       (trace[k].event = "agent_step" /\ trace[k].output.kind \in CallLess)
          => /\ mode = "store" /\ k < Len(trace)
             /\ trace[k + 1].event = "validator_step"
             /\ trace[k + 1].validates_node_id = trace[k].node_id
             /\ ~trace[k + 1].validation_passed

CallLessDecisionRaises ==
    [](OnlyAsRejectedAttempt) /\ [][RaisesAtOnce]_vars

SubAgentCallLessDecisionRaised ==
    /\ result.kind = "ValueError" /\ result.agent = "BasketBuilder"
    /\ stack = <<>>
    /\ \E k \in DOMAIN trace : trace[k].context = "Orchestrator"

----------------------------------------------------------------------------
\* C31: a step-limit error raised inside a sub-agent is not recovered by the
\* delegating agent: in the step that raises it no event is appended, the
\* orchestrator log is handed over without a turn for the delegating step,
\* no invocation goes on looping, and the report the runner hands back for
\* the task has code timeout.
SubAgentHitsStepLimit ==
    /\ Running /\ Len(stack) > 1
    /\ Top.pc = "decide" /\ ~InRange(Top.i, Top.max_steps)

DelegatingTurn(f, subagent_name) == Msg("assistant", Delegated(f.llm_result, subagent_name))

SubAgentStepLimitUnwinds ==
    SubAgentHitsStepLimit
       => /\ stack' = <<>>
          /\ trace' = trace
          /\ result'.kind = "AgentStepLimitError"
          /\ result'.orchestrator_log = stack[1].full_log
          /\ \A k \in DOMAIN result'.orchestrator_log :
                result'.orchestrator_log[k] # DelegatingTurn(stack[1], Top.agent)
          /\ \A k \in DOMAIN stack[1].conversation :
                stack[1].conversation[k] # DelegatingTurn(stack[1], Top.agent)

StepLimitReportedAsTimeout ==
    /\ result.kind = "AgentStepLimitError" => stack = <<>>
    /\ (run_pc = "finished" /\ result.kind = "AgentStepLimitError" /\ run_report.raised = "")
          => /\ run_report.code = "timeout"
             /\ run_report.trace = trace

SubAgentStepLimitNotRecovered ==
    [](StepLimitReportedAsTimeout) /\ [][SubAgentStepLimitUnwinds]_vars

SubAgentStepLimitEndedTheTask ==
    /\ run_pc = "finished" /\ run_report.raised = "" /\ run_report.code = "timeout"
    /\ result.kind = "AgentStepLimitError" /\ result.agent = "BasketBuilder"
    /\ result.orchestrator_log = <<Msg("system", SystemPrompt), Msg("user", TaskText)>>
    /\ \E k \in DOMAIN run_report.trace :
          /\ run_report.trace[k].event = "agent_step"
          /\ run_report.trace[k].context = "BasketBuilder"

----------------------------------------------------------------------------
\* C32: the trace is append-only: over every round of validate_and_retry_step
\* and every part of a loop iteration the trace as it was is a prefix of the
\* trace afterwards, so no stored event is removed, moved or changed.  The
\* validator event of a rejection is popped and appended again inside one
\* round, behind the rejected agent_step; it was appended in that round.
IsPrefix(s, t) == Len(s) <= Len(t) /\ SubSeq(t, 1, Len(s)) = s

TraceGrowsAtTheEnd == IsPrefix(trace, trace')

TraceAppendOnly == [][TraceGrowsAtTheEnd]_vars

RejectionLoggedBehindEarlierEvents ==
    \E k \in 2 .. Len(trace) - 1 :
       /\ trace[k].event = "agent_step"
       /\ trace[k + 1].event = "validator_step"
       /\ ~trace[k + 1].validation_passed
       /\ trace[k + 1].validates_node_id = trace[k].node_id

----------------------------------------------------------------------------
\* C33: with max_validations = M a terminal action is rejected and the loop
\* continued at most M-1 times in one invocation; the M-th terminal attempt
\* ends the loop whatever the verdict, with the status of that terminal
\* action, and the validator's analysis is added to the report exactly when
\* the verdict on that last attempt was negative.
Continued == {k \in DOMAIN tv_loop.attempts : tv_loop.attempts[k].continued}

StatusOf(action) == IF action = "complete_task" THEN "completed" ELSE "refused"

Noted(report) == \E k \in DOMAIN report : report[k] = "Validator note after checks:"

TerminalValidationBounded ==
    LET attempts == tv_loop.attempts
        M == tv_loop.max_validations
    IN  /\ Cardinality(Continued) <= M - 1
        /\ \A k \in DOMAIN attempts :
              /\ k >= M => ~attempts[k].continued
              /\ ~attempts[k].continued
                    => /\ k = Len(attempts)
                       /\ tv_out.done /\ tv_out.raised = ""
                       /\ tv_out.status = StatusOf(attempts[k].action)
                       /\ Noted(tv_out.report) <=> attempts[k].verdict = "invalid"
        /\ (tv_out.done /\ tv_out.raised = "")
              => attempts # <<>> /\ ~attempts[Len(attempts)].continued

EndedByTheLastAllowedAttempt ==
    /\ mode = "terminal" /\ tv_out.done /\ tv_out.raised = ""
    /\ tv_loop.max_validations >= 2
    /\ Len(tv_loop.attempts) = tv_loop.max_validations
    /\ \A k \in DOMAIN tv_loop.attempts : tv_loop.attempts[k].verdict = "invalid"
    /\ Noted(tv_out.report)
    /\ tv_loop.i > tv_loop.validation_count

----------------------------------------------------------------------------
\* C34: on a step-limit error the ERC3 runner sends one fallback response
\* with outcome error_internal to the backend and after it calls
\* complete_task at least once and at most three times; whether the fallback
\* or the completion calls fail or not, nothing is raised and the report
\* handed back has code timeout.
Erc3StepLimit == run_bench = "erc3" /\ run_loop.kind = "AgentStepLimitError"

FallbackBeforeCompletion ==
    /\ run_pc = "after loop" => dispatched = <<>> /\ run_completions = 0
    /\ (Erc3StepLimit /\ run_pc = "fallback sent")
          => /\ Len(dispatched) = 1 /\ dispatched[1].outcome = "error_internal"
             /\ run_completions = 0 /\ ~run_report.done

Erc3TimeoutFallback ==
    /\ FallbackBeforeCompletion
    /\ (Erc3StepLimit /\ run_pc = "finished")
          => /\ Len(dispatched) = 1
             /\ dispatched[1].request = "Req_ProvideAgentResponse"
             /\ dispatched[1].outcome = "error_internal"
             /\ run_completions \in 1 .. 3
             /\ \A k \in 1 .. run_completions - 1 : run_platform.complete[k] = "error"
             /\ run_completions < 3 => run_platform.complete[run_completions] = "ok"
             /\ run_report.done /\ run_report.raised = ""
             /\ run_report.code = "timeout"

TimeoutReportAfterEverythingFailed ==
    /\ mode = "runner" /\ Erc3StepLimit /\ run_pc = "finished"
    /\ run_platform.fallback = "error"
    /\ \A k \in 1 .. 3 : run_platform.complete[k] = "error"
    /\ run_completions = 3
    /\ run_report.code = "timeout"

----------------------------------------------------------------------------
\* C35: every proposal is recorded as exactly one agent_step event, so no
\* node id carries two agent_step events in the trace.
OneAgentStepPerNodeId ==
    \A q, r \in DOMAIN trace :
       (q # r /\ trace[q].event = "agent_step" /\ trace[r].event = "agent_step")
          => trace[q].node_id # trace[r].node_id

----------------------------------------------------------------------------
\* C36: in every trace handed back by a runner, each event whose
\* parent_node_id is neither absent nor the sentinel "0" has an agent_step
\* event with that node id in the same trace.
HasParentStep(events, q) ==
    events[q].parent_node_id \in {NoneId, RootId}
       \/ \E r \in DOMAIN events :
             /\ events[r].event = "agent_step"
             /\ events[r].node_id = events[q].parent_node_id

EveryEventHasItsParentStep ==
    (run_pc = "finished" /\ run_report.done /\ run_report.raised = "")
       => \A q \in DOMAIN run_report.trace : HasParentStep(run_report.trace, q)

----------------------------------------------------------------------------
\* C37: in one store invocation with max_steps = N whose agent is bound to a
\* validator with max_attempts = M, rejected proposals use up sibling indices
\* but no loop iterations: the invocation makes at most N*(M+1) agent
\* decision calls and at most N*(M+1) validator calls, and every sibling
\* index it uses is below N*(M+1).
BoundValidator(f) == StoreStepValidator(registry, "terminal", f.agent)

CallBudget(f) == f.max_steps * (registry[BoundValidator(f)].max_attempts + 1)

ValidatorCallsOf(f) ==
    Cardinality({q \in DOMAIN trace :
                   /\ trace[q].event = "validator_step"
                   /\ \E k \in 0 .. CallBudget(f) + 1 :
                         trace[q].validates_node_id = next_node_id(f.parent_node_id, k)})

RejectionsUseNoIterations ==
    mode = "store"
       => \A f \in Frames :
             BoundValidator(f) # 0
                => /\ f.i <= f.max_steps
                   /\ f.calls <= CallBudget(f)
                   /\ ValidatorCallsOf(f) <= CallBudget(f)
                   /\ \A a \in DOMAIN f.indices : f.indices[a] < CallBudget(f)

EveryStepRetriedToTheLimit ==
    /\ mode = "store"
    /\ \E f \in Frames :
          /\ BoundValidator(f) # 0
          /\ f.i + 1 = f.max_steps /\ f.pc = "execute"
          /\ f.calls = CallBudget(f)
          /\ ValidatorCallsOf(f) = CallBudget(f)
          /\ \E a \in DOMAIN f.indices : f.indices[a] = CallBudget(f) - 1

----------------------------------------------------------------------------
\* C38: inject_plan removes only messages an earlier inject_plan call put
\* in: the initial task message, the assistant turns and the sub-agent
\* results stay in the conversation, in the order the loop added them,
\* whatever their content.
RECURSIVE IsSubsequence(_, _)
IsSubsequence(s, t) ==
    IF s = <<>> THEN TRUE
    ELSE IF t = <<>> THEN FALSE
    ELSE IF Head(s) = Head(t) THEN IsSubsequence(Tail(s), Tail(t))
    ELSE IsSubsequence(s, Tail(t))

LoopMessagesStay ==
    mode = "turns" => IsSubsequence(plan_loop, plan_conv)

----------------------------------------------------------------------------
\* C39: every event of a sub-agent spawned by a delegation step X lies in
\* the trace after an approving validator_step of X and before every
\* agent_step event of X itself.
SubAgentEventsInsideTheirStep ==
    mode = "store"
       => \A q \in DOMAIN trace :
             (trace[q].event = "agent_step" /\ trace[q].parent_node_id # RootId)
                => LET X == trace[q].parent_node_id
                   IN  /\ \E r \in 1 .. q - 1 :
                             /\ trace[r].event = "validator_step"
                             /\ trace[r].validates_node_id = X
                             /\ trace[r].validation_passed
                       /\ \A r \in DOMAIN trace :
                             (trace[r].event = "agent_step" /\ trace[r].node_id = X)
                                => q < r

----------------------------------------------------------------------------
\* C40: when execute_set_basket returns without an error field, the coupon
\* active on the backend basket is the applied coupon it reports (none when
\* it reports none), whichever requests failed while the candidate coupons
\* were tested.  The opening view of the basket is taken to have succeeded.
ActiveCouponIsTheReportedOne ==
    (/\ call_out.done /\ call_fn.tool = "set_basket"
     /\ call_out.raised = "" /\ ~call_out.response.error
     /\ Answer(1) # "api_error")
       => call_out.b.coupon = call_out.response.applied_coupon

====
